---- MODULE Spec2Model ----
(***************************************************************************)
(* Request admission (proxy.ts), the machine-facing route /api/example,   *)
(* the home page Content and the server actions of lib/core, with their   *)
(* error-to-outcome dispatch tables.                                       *)
(*                                                                         *)
(* The specifications share the variables:                                 *)
(*   SpecGate      one HTTP request at a time: matcher -> proxy -> route   *)
(*   Spec          concurrent server-action invocations over the post table*)
(*   SpecActivity  the Activity service: add, send and the fibers it forks *)
(***************************************************************************)
EXTENDS Integers, Sequences, FiniteSets, TLC

VARIABLES
    hpc,        \* position of the HTTP request in flight
    hreq,       \* the HTTP request: path, cookies, verdict of the auth collaborator
    hcall,      \* the server action a POST request carries, if any
    hprev,      \* an earlier request and the decision proxy() gave it
    hdecision,  \* what proxy() returned for it (or that the matcher skipped it)
    hresp,      \* the response the client receives
    hresult,    \* how the route handler's computation ended
    htrace,     \* effects performed while serving the request, in order
    post,       \* rows of the table schema.post
    nextId,     \* next primary key the database hands out
    inv,        \* the server-action invocations, one per slot
    logsRef,    \* the value of the FiberRef LogsRef in each fiber
    daemon,     \* the fibers forked by Activity.send
    delivered,  \* the texts the Telegram API accepted, in order
    errorLog,   \* what Effect.logError wrote, in order
    sendExit,   \* how each call of Activity.send ended for its caller
    applied,    \* the last call of a session guard or of getPosts: input and result
    tg,         \* the call of Telegram.send in progress, chunk by chunk
    mi          \* the state of one MentionInput component

actVars == <<logsRef, daemon, delivered, errorLog, sendExit>>

extVars == <<applied, tg, mi>>

vars == <<hpc, hreq, hcall, hprev, hdecision, hresp, hresult, htrace, post, nextId, inv,
          actVars, extVars>>

-----------------------------------------------------------------------------
(* Strings *)

StartsWith(s, p) == Len(s) >= Len(p) /\ SubSeq(s, 1, Len(p)) = p

EndsWith(s, p) == Len(s) >= Len(p) /\ SubSeq(s, Len(s) - Len(p) + 1, Len(s)) = p

\* JS undefined: a value without any field
Undefined == <<>>

HasTag(o, t) == "_tag" \in DOMAIN o /\ o._tag = t

-----------------------------------------------------------------------------
(* proxy.ts *)

SESSION_COOKIE == "better-auth.session_token"

SECURE_SESSION_COOKIE == "__Secure-better-auth.session_token"

PUBLIC_ROUTES == <<"/", "/login">>

LoginPath == "/login"

\* PUBLIC_ROUTES.includes(pathname)
IncludesRoute(pathname) == \E i \in DOMAIN PUBLIC_ROUTES : PUBLIC_ROUTES[i] = pathname

\* PUBLIC_ROUTES.some(r => r !== '/' && pathname.startsWith(r))
SomePrefixRoute(pathname) ==
    \E i \in DOMAIN PUBLIC_ROUTES :
        PUBLIC_ROUTES[i] # "/" /\ StartsWith(pathname, PUBLIC_ROUTES[i])

IsPublicExactOnly(pathname) == IncludesRoute(pathname)

IsPublic(pathname) == IncludesRoute(pathname) \/ SomePrefixRoute(pathname)

\* a variant that reads the value and wants it non-empty
CookiesHasNonEmpty(cookies, name) == name \in DOMAIN cookies /\ cookies[name] # ""

\* request.cookies.has(name): the name is in the jar, whatever its value
CookiesHas(cookies, name) == name \in DOMAIN cookies

HasSessionPlainOnly(cookies) == CookiesHas(cookies, SESSION_COOKIE)

HasSession(cookies) ==
    CookiesHas(cookies, SESSION_COOKIE) \/ CookiesHas(cookies, SECURE_SESSION_COOKIE)

\* NextResponse.next() without the header
NextResponseBare(pathname) ==
    [_tag |-> "Allow", headers |-> [h \in {} |-> pathname]]

\* NextResponse.next() after response.headers.set('x-pathname', pathname)
NextResponseWith(pathname) ==
    [_tag |-> "Allow", headers |-> [h \in {"x-pathname"} |-> pathname]]

\* NextResponse.redirect(new URL('/login', request.url))
RedirectResponse == [_tag |-> "Redirect", to |-> LoginPath]

\* a variant with hidden state: once a request was allowed on its cookie, go on allowing
proxyRemembering(request) ==
    LET pathname == request.path
        response == NextResponseWith(pathname)
    IN  IF IsPublic(pathname) THEN response
        ELSE IF ~HasSession(request.cookies) /\ ~HasSession(hprev.request.cookies)
             THEN RedirectResponse
             ELSE response

\* the cookie check placed ahead of the public-route check
proxySessionFirst(request) ==
    LET pathname == request.path
        response == NextResponseWith(pathname)
    IN  IF ~HasSession(request.cookies) THEN RedirectResponse
        ELSE response

proxy(request) ==
    LET pathname == request.path
        response == NextResponseWith(pathname)
    IN  IF IsPublic(pathname) THEN response
        ELSE IF ~HasSession(request.cookies) THEN RedirectResponse
        ELSE response

\* a variant that takes the pattern's '.' for a full stop
DotMatchesLiteral(s, lit) == StartsWith(s, lit)

\* config.matcher: one character of a regular expression's '.'
DotMatches(s, lit) ==
    /\ Len(s) >= Len(lit)
    /\ \A i \in 1..Len(lit) :
          SubSeq(lit, i, i) = "." \/ SubSeq(s, i, i) = SubSeq(lit, i, i)

ExcludedPrefixes ==
    {"api", "_next/static", "_next/image", "favicon.ico", "sitemap.xml", "robots.txt"}

ImageExtensions == {"svg", "png", "jpg", "jpeg", "gif", "webp"}

\* '/((?!api|_next/static|...|.*\\.(?:svg|png|jpg|jpeg|gif|webp)$).*)'
MatcherMatches(pathname) ==
    /\ StartsWith(pathname, "/")
    /\ LET rest == SubSeq(pathname, 2, Len(pathname))
       IN  /\ \A x \in ExcludedPrefixes : ~DotMatches(rest, x)
           /\ \A e \in ImageExtensions : ~EndsWith(rest, "." \o e)

-----------------------------------------------------------------------------
(* Inputs *)

Paths ==
    {"/", "/login", "/login/x", "/loginx", "/Login", "/dashboard",
     "/settings/profile", "/api/example", "/logo.png", "/favicon.ico",
     "/_next/static/a.js", "/robots.txt.bak", "/faviconxico"}

CookieNames == {SESSION_COOKIE, SECURE_SESSION_COOKIE, "theme"}

CookieValues == {"", "tok"}

\* a cookie jar maps the names it holds to opaque values
CookieJars == UNION {[names -> CookieValues] : names \in SUBSET CookieNames}

Users == {"u1", "u2"}

NoSession == "null"

\* what authService.getSessionFromCookies() answers for the request
Sessions == Users \cup {NoSession}

Requests == [path : Paths, cookies : CookieJars, session : Sessions]

NoRequest == [path |-> "", cookies |-> <<>>, session |-> NoSession]

NoDecision == [_tag |-> "None"]

NotGated == [_tag |-> "NotGated"]

NoResponse == [kind |-> "none"]

NoCall == [action |-> "", input |-> <<>>]

NoPrevious == [request |-> NoRequest, decision |-> NoDecision]

-----------------------------------------------------------------------------
(* lib/core/errors, lib/services/auth/get-session.ts *)

UnauthenticatedError == [_tag |-> "UnauthenticatedError", message |-> "Not authenticated"]

\* new NotFoundError({ message: 'Post not found', entity: 'post', id: postId })
NotFoundError(id) ==
    [_tag |-> "NotFoundError", message |-> "Post not found", entity |-> "post", id |-> id]

UnauthorizedError ==
    [_tag |-> "UnauthorizedError", message |-> "You can only delete your own posts"]

\* messages the database driver may put in a SqlError
SqlMessages == {"", "relation post does not exist"}

SqlErrors == [_tag : {"SqlError"}, message : SqlMessages]

\* failures of building S3.Live inside AppLayer
S3ConfigErrors ==
    [_tag : {"S3ConfigError"}, message : {"AWS_S3_BUCKET not found"}]

\* failure of a call of the S3 client
S3ClientErrors == [_tag : {"S3ServiceError"}, message : {"AccessDenied"}]

Ok == [_tag |-> "Ok", message |-> ""]

\* a variant that goes on without a session
getSessionAnonymous(session) == [ok |-> TRUE, error |-> Ok, user |-> session]

\* getSession(): the session's user, or a failure with UnauthenticatedError
getSession(session) ==
    IF session = NoSession
    THEN [ok |-> FALSE, error |-> UnauthenticatedError, user |-> NoSession]
    ELSE [ok |-> TRUE, error |-> Ok, user |-> session]

\* getPosts(): the rows of the session user (no q, no published filter)
getPosts(user) == {p \in post : p.userId = user}


-----------------------------------------------------------------------------
(* Results of a computation: one success value or one tagged error *)

Succeed(v) == [ok |-> TRUE, error |-> Ok, value |-> v]

Fail(e) == [ok |-> FALSE, error |-> e, value |-> Undefined]

\* NextEffect.redirect(path), carried out by NextEffect.runPromise
NextEffectRedirect(path) == [_tag |-> "Redirect", to |-> path]

-----------------------------------------------------------------------------
(* app/page.tsx: Content *)

\* getPosts() as Content runs it: AppLayer is built, then getSession, then the query
ContentComputation(session, layer, db) ==
    IF layer # Ok THEN [result |-> Fail(layer), trace |-> <<>>]
    ELSE LET s == getSession(session)
         IN  IF ~s.ok THEN [result |-> Fail(s.error), trace |-> <<"getSession">>]
             ELSE IF db # Ok
                  THEN [result |-> Fail(db), trace |-> <<"getSession", "db.select">>]
                  ELSE [result |-> Succeed(getPosts(s.user)),
                        trace |-> <<"getSession", "db.select">>]

ContentOnFailure(error) ==
    IF error._tag = "UnauthenticatedError" THEN NextEffectRedirect("/login")
    ELSE [_tag |-> "ErrorElement", message |-> error.message]

ContentOnSuccess(posts) == [_tag |-> "PostList", posts |-> posts]

Content(session, layer, db) ==
    LET c == ContentComputation(session, layer, db)
    IN  [outcome |-> IF c.result.ok THEN ContentOnSuccess(c.result.value)
                     ELSE ContentOnFailure(c.result.error),
         result |-> c.result,
         trace |-> c.trace]

-----------------------------------------------------------------------------
(* app/api/example/route.ts *)

JsonResponse(status, body) == [kind |-> "json", status |-> status, body |-> body]

ApiCatchAllRedirecting(error) == [kind |-> "redirect", to |-> "/login", by |-> "route"]

ApiCatchAll(error) ==
    IF error._tag = "UnauthenticatedError"
    THEN JsonResponse(401, [error |-> "Not authenticated"])
    ELSE JsonResponse(500, [error |-> "Internal server error"])

\* getPosts() inside the route's runtime (AppLayer was built when the module loaded)
getHandlerComputation(session, db) ==
    LET s == getSession(session)
    IN  IF ~s.ok THEN [result |-> Fail(s.error), trace |-> <<"getSession">>]
        ELSE IF db # Ok
             THEN [result |-> Fail(db), trace |-> <<"getSession", "db.select">>]
             ELSE [result |-> Succeed(getPosts(s.user)),
                   trace |-> <<"getSession", "db.select">>]

getHandler(session, db) ==
    LET c == getHandlerComputation(session, db)
    IN  [response |-> IF c.result.ok THEN JsonResponse(200, [posts |-> c.result.value])
                      ELSE ApiCatchAll(c.result.error),
         result |-> c.result,
         trace |-> c.trace]

-----------------------------------------------------------------------------
(* One HTTP request: matcher, proxy, route handler *)

Receive(r) ==
    /\ hpc = "idle"
    /\ hpc' = "matcher"
    /\ hreq' = r
    /\ hdecision' = NoDecision
    /\ hresp' = NoResponse
    /\ hresult' = Fail(Ok)
    /\ htrace' = <<>>
    /\ hcall' = NoCall
    /\ UNCHANGED <<hprev, post, nextId, inv, actVars, extVars>>

\* the framework evaluates config.matcher before it calls proxy
Matcher ==
    /\ hpc = "matcher"
    /\ IF MatcherMatches(hreq.path)
       THEN hpc' = "proxy" /\ hdecision' = hdecision
       ELSE hpc' = "route" /\ hdecision' = NotGated
    /\ UNCHANGED <<hreq, hcall, hprev, hresp, hresult, htrace, post, nextId, inv, actVars, extVars>>

\* a variant in which the route handler runs whatever proxy returned
ProxyContinues ==
    /\ hpc = "proxy"
    /\ LET d == proxy(hreq)
       IN  /\ hdecision' = d
           /\ hresp' = IF d._tag = "Redirect"
                       THEN [kind |-> "redirect", to |-> d.to, by |-> "proxy"]
                       ELSE hresp
           /\ hpc' = "route"
    /\ UNCHANGED <<hreq, hcall, hprev, hresult, htrace, post, nextId, inv, actVars, extVars>>

\* the framework calls proxy; a response it returns ends the request, and
\* NextResponse.next() passes the request on to routing
Proxy ==
    /\ hpc = "proxy"
    /\ LET d == proxy(hreq)
       IN  /\ hdecision' = d
           /\ IF d._tag = "Redirect"
              THEN /\ hresp' = [kind |-> "redirect", to |-> d.to, by |-> "proxy"]
                   /\ hpc' = "done"
              ELSE /\ hresp' = hresp
                   /\ hpc' = "route"
    /\ UNCHANGED <<hreq, hcall, hprev, hresult, htrace, post, nextId, inv, actVars, extVars>>

RoutePage(layer, db) ==
    /\ hpc = "route"
    /\ hcall = NoCall
    /\ hreq.path = "/"
    /\ LET c == Content(hreq.session, layer, db)
       IN  /\ hresp' = IF c.outcome._tag = "Redirect"
                       THEN [kind |-> "redirect", to |-> c.outcome.to, by |-> "route"]
                       ELSE [kind |-> "page", element |-> c.outcome]
           /\ hresult' = c.result
           /\ htrace' = c.trace
    /\ hpc' = "done"
    /\ UNCHANGED <<hreq, hcall, hprev, hdecision, post, nextId, inv, actVars, extVars>>

RouteApi(db) ==
    /\ hpc = "route"
    /\ hreq.path = "/api/example"
    /\ LET h == getHandler(hreq.session, db)
       IN  /\ hresp' = h.response
           /\ hresult' = h.result
           /\ htrace' = h.trace
    /\ hpc' = "done"
    /\ UNCHANGED <<hreq, hcall, hprev, hdecision, post, nextId, inv, actVars, extVars>>

\* every other route (login page, assets, not found) is outside this model
RouteOther ==
    /\ hpc = "route"
    /\ hcall = NoCall
    /\ hreq.path \notin {"/", "/api/example"}
    /\ hresp' = [kind |-> "other"]
    /\ hpc' = "done"
    /\ UNCHANGED <<hreq, hcall, hprev, hdecision, hresult, htrace, post, nextId, inv, actVars, extVars>>

\* the response is sent; an observer notes the request and what proxy decided
RespondRemember ==
    /\ hpc = "done"
    /\ hdecision._tag \in {"Allow", "Redirect"}
    /\ hprev' = [request |-> hreq, decision |-> hdecision]
    /\ hpc' = "idle"
    /\ hreq' = NoRequest
    /\ hcall' = NoCall
    /\ hdecision' = NoDecision
    /\ hresp' = NoResponse
    /\ hresult' = Fail(Ok)
    /\ htrace' = <<>>
    /\ UNCHANGED <<post, nextId, inv, actVars, extVars>>

\* the response is sent; nothing of the request is kept
Respond ==
    /\ hpc = "done"
    /\ hpc' = "idle"
    /\ hreq' = NoRequest
    /\ hcall' = NoCall
    /\ hdecision' = NoDecision
    /\ hresp' = NoResponse
    /\ hresult' = Fail(Ok)
    /\ htrace' = <<>>
    /\ UNCHANGED <<hprev, post, nextId, inv, actVars, extVars>>


-----------------------------------------------------------------------------
(* Server actions: lib/core/post, lib/core/file *)

MaxId == 2

MaxNow == 1

\* the values Date.now() may read
Times == 0..MaxNow

Slots == {1, 2}

ServerActions ==
    {"createPostAction", "deletePostAction", "getUploadUrlAction",
     "getDownloadUrlAction", "deleteFileAction"}

\* the interactive entry points: the server actions and the home page
EntryPoints == ServerActions \cup {"Content"}

BaseUrl == "https://bucket.s3.region.amazonaws.com/"

Titles == {"hello"}

PostIds == 1..MaxId

FileUrls == {BaseUrl \o "avatars/u1/0-photo.jpg", "avatars/u1/0-photo.jpg"}

\* userId is no field of CreatePostInput: it is the extra property a client
\* may put into the object it posts
NoInput == [title |-> "", postId |-> 0, fileName |-> "", folder |-> "", fileUrl |-> "",
            userId |-> ""]

\* the owner a client tries to name in its input, if any
ClaimedOwners == {"", "u2"}

InputsOf(action) ==
    CASE action = "createPostAction" ->
            {[NoInput EXCEPT !.title = t, !.userId = u] : t \in Titles, u \in ClaimedOwners}
      [] action = "deletePostAction" -> {[NoInput EXCEPT !.postId = i] : i \in PostIds}
      [] action = "getUploadUrlAction" ->
            {[NoInput EXCEPT !.fileName = "photo.jpg", !.folder = "avatars"]}
      [] action = "Content" -> {NoInput}
      [] OTHER -> {[NoInput EXCEPT !.fileUrl = u] : u \in FileUrls}

NoRow == [id |-> 0, title |-> "", userId |-> NoSession]

SeedPosts == {[id |-> 1, title |-> "seed", userId |-> "u1"]}

Idle ==
    [pc |-> "idle", action |-> "", input |-> NoInput, session |-> NoSession,
     user |-> NoSession, existing |-> NoRow, result |-> Fail(Ok),
     outcome |-> Undefined, revalidated |-> 0, trace |-> <<>>]

\* s3.getObjectKeyFromUrl(url): url.replace(config.baseUrl, '')
getObjectKeyFromUrl(url) ==
    LET n == Len(BaseUrl)
        at == {i \in 1..(Len(url) - n + 1) : SubSeq(url, i, i + n - 1) = BaseUrl}
    IN  IF at = {} THEN url
        ELSE LET i == CHOOSE j \in at : \A k \in at : j <= k
             IN  SubSeq(url, 1, i - 1) \o SubSeq(url, i + n, Len(url))

\* s3.getUrlFromObjectKey(key)
getUrlFromObjectKey(key) == BaseUrl \o key

\* keyOrUrl.startsWith('https://') ? getObjectKeyFromUrl(keyOrUrl) : keyOrUrl
KeyOf(fileUrl) ==
    IF StartsWith(fileUrl, "https://") THEN getObjectKeyFromUrl(fileUrl) ELSE fileUrl

\* `${input.folder}/${session.user.id}/${Date.now()}-${input.fileName}`
UploadKey(input, user, time) ==
    input.folder \o "/" \o user \o "/" \o ToString(time) \o "-" \o input.fileName

PresignedUrl(verb, key) == "https://signed/" \o verb \o "/" \o key


-----------------------------------------------------------------------------
(* Effect.matchEffect({ onFailure, onSuccess }) of each action *)

ErrorOutcome(message) == [_tag |-> "Error", message |-> message]

Mapped(outcome, revalidations) == [outcome |-> outcome, revalidated |-> revalidations]

createPostOnFailureInline(error) ==
    Mapped(ErrorOutcome("Failed to create post: " \o error.message), 0)

createPostOnFailure(error) ==
    IF error._tag = "UnauthenticatedError" THEN Mapped(NextEffectRedirect("/login"), 0)
    ELSE Mapped(ErrorOutcome("Failed to create post: " \o error.message), 0)

createPostOnSuccessNoRevalidate(row) == Mapped([_tag |-> "Success", post |-> row], 0)

\* revalidatePath('/'); return { _tag: 'Success', post }
createPostOnSuccess(row) == Mapped([_tag |-> "Success", post |-> row], 1)

deletePostOnFailureRawMessage(error) ==
    IF error._tag = "UnauthenticatedError" THEN Mapped(NextEffectRedirect("/login"), 0)
    ELSE Mapped(ErrorOutcome(error.message), 0)

deletePostOnFailureRethrow(error) ==
    IF error._tag = "UnauthenticatedError" THEN Mapped(NextEffectRedirect("/login"), 0)
    ELSE IF error._tag = "UnauthorizedError" THEN Mapped(ErrorOutcome(error.message), 0)
    ELSE IF error._tag = "NotFoundError" THEN Mapped(ErrorOutcome(error.message), 0)
    ELSE Mapped([_tag |-> "Failure", cause |-> error], 0)

\* a variant whose catch-all stands ahead of the two explicit cases
deletePostOnFailureCatchAllFirst(error) ==
    IF error._tag = "UnauthenticatedError" THEN Mapped(NextEffectRedirect("/login"), 0)
    ELSE Mapped(ErrorOutcome("Something went wrong"), 0)

deletePostOnFailure(error) ==
    IF error._tag = "UnauthenticatedError" THEN Mapped(NextEffectRedirect("/login"), 0)
    ELSE IF error._tag = "UnauthorizedError" THEN Mapped(ErrorOutcome(error.message), 0)
    ELSE IF error._tag = "NotFoundError" THEN Mapped(ErrorOutcome(error.message), 0)
    ELSE Mapped(ErrorOutcome("Something went wrong"), 0)

\* onSuccess: () => Effect.sync(() => revalidatePath('/')): the value of revalidatePath
deletePostOnSuccess(value) == Mapped(Undefined, 1)

getUploadUrlOnFailure(error) ==
    IF error._tag = "UnauthenticatedError" THEN Mapped(NextEffectRedirect("/login"), 0)
    ELSE Mapped(ErrorOutcome("Failed to generate upload URL"), 0)

\* { _tag: 'Success', ...data }
getUploadUrlOnSuccess(data) ==
    Mapped([_tag |-> "Success", signedUrl |-> data.signedUrl,
            publicUrl |-> data.publicUrl, key |-> data.key], 0)

getDownloadUrlOnFailure(error) ==
    IF error._tag = "UnauthenticatedError" THEN Mapped(NextEffectRedirect("/login"), 0)
    ELSE Mapped(ErrorOutcome("Failed to generate download URL"), 0)

getDownloadUrlOnSuccess(data) ==
    Mapped([_tag |-> "Success", signedUrl |-> data.signedUrl], 0)

deleteFileOnFailure(error) ==
    IF error._tag = "UnauthenticatedError" THEN Mapped(NextEffectRedirect("/login"), 0)
    ELSE Mapped(ErrorOutcome("Failed to delete file"), 0)

deleteFileOnSuccess(value) == Mapped([_tag |-> "Success"], 0)

OnFailure(action, error) ==
    CASE action = "createPostAction" -> createPostOnFailure(error)
      [] action = "deletePostAction" -> deletePostOnFailure(error)
      [] action = "getUploadUrlAction" -> getUploadUrlOnFailure(error)
      [] action = "getDownloadUrlAction" -> getDownloadUrlOnFailure(error)
      [] action = "deleteFileAction" -> deleteFileOnFailure(error)
      [] action = "Content" -> Mapped(ContentOnFailure(error), 0)

OnSuccess(action, value) ==
    CASE action = "createPostAction" -> createPostOnSuccess(value)
      [] action = "deletePostAction" -> deletePostOnSuccess(value)
      [] action = "getUploadUrlAction" -> getUploadUrlOnSuccess(value)
      [] action = "getDownloadUrlAction" -> getDownloadUrlOnSuccess(value)
      [] action = "deleteFileAction" -> deleteFileOnSuccess(value)
      [] action = "Content" -> Mapped(ContentOnSuccess(value), 0)

-----------------------------------------------------------------------------
(* Steps of an invocation *)

Others == <<hpc, hreq, hcall, hprev, hdecision, hresp, hresult, htrace, actVars, extVars>>

\* the client calls the action; Effect.provide(AppLayer) builds the layers
Call(s, action, input, session, layer) ==
    /\ inv[s].pc = "idle"
    /\ inv' = [inv EXCEPT ![s] =
                 IF layer = Ok
                 THEN [Idle EXCEPT !.pc = "session", !.action = action,
                                   !.input = input, !.session = session]
                 ELSE [Idle EXCEPT !.pc = "match", !.action = action,
                                   !.input = input, !.session = session,
                                   !.result = Fail(layer)]]
    /\ UNCHANGED <<post, nextId>>
    /\ UNCHANGED Others

\* a variant whose body runs whatever getSession answers
GetSessionProceeds(s) ==
    /\ inv[s].pc = "session"
    /\ inv' = [inv EXCEPT ![s] = [@ EXCEPT !.pc = "body", !.user = inv[s].session,
                                           !.trace = Append(@, "getSession")]]
    /\ UNCHANGED <<post, nextId>>
    /\ UNCHANGED Others

\* yield* getSession()
GetSession(s) ==
    /\ inv[s].pc = "session"
    /\ LET r == getSession(inv[s].session)
       IN  inv' = [inv EXCEPT ![s] =
                     IF r.ok
                     THEN [@ EXCEPT !.pc = "body", !.user = r.user,
                                    !.trace = Append(@, "getSession")]
                     ELSE [@ EXCEPT !.pc = "match", !.result = Fail(r.error),
                                    !.trace = Append(@, "getSession")]]
    /\ UNCHANGED <<post, nextId>>
    /\ UNCHANGED Others

\* a variant where values({ ...input, userId }) lets the input name the owner
InsertPostInputOwner(s, db) ==
    /\ inv[s].pc = "body"
    /\ inv[s].action = "createPostAction"
    /\ IF db = Ok
       THEN /\ nextId <= MaxId
            /\ LET row == [id |-> nextId, title |-> inv[s].input.title,
                           userId |-> IF inv[s].input.userId # ""
                                      THEN inv[s].input.userId ELSE inv[s].user]
               IN  /\ post' = post \cup {row}
                   /\ inv' = [inv EXCEPT ![s].pc = "match", ![s].result = Succeed(row),
                                         ![s].trace = Append(@, "db.insert")]
            /\ nextId' = nextId + 1
       ELSE /\ inv' = [inv EXCEPT ![s].pc = "match", ![s].result = Fail(db),
                                  ![s].trace = Append(@, "db.insert")]
            /\ UNCHANGED <<post, nextId>>
    /\ UNCHANGED Others

\* db.insert(schema.post).values({ title, content, userId: session.user.id }).returning()
InsertPost(s, db) ==
    /\ inv[s].pc = "body"
    /\ inv[s].action = "createPostAction"
    /\ IF db = Ok
       THEN /\ nextId <= MaxId
            /\ LET row == [id |-> nextId, title |-> inv[s].input.title,
                           userId |-> inv[s].user]
               IN  /\ post' = post \cup {row}
                   /\ inv' = [inv EXCEPT ![s].pc = "match", ![s].result = Succeed(row),
                                         ![s].trace = Append(@, "db.insert")]
            /\ nextId' = nextId + 1
       ELSE /\ inv' = [inv EXCEPT ![s].pc = "match", ![s].result = Fail(db),
                                  ![s].trace = Append(@, "db.insert")]
            /\ UNCHANGED <<post, nextId>>
    /\ UNCHANGED Others

\* db.select().from(schema.post).where(eq(schema.post.id, postId)).limit(1) and the checks
SelectPostNoOwnerCheck(s, db) ==
    /\ inv[s].pc = "body"
    /\ inv[s].action = "deletePostAction"
    /\ LET rows == {p \in post : p.id = inv[s].input.postId}
           existing == IF rows = {} THEN NoRow ELSE CHOOSE p \in rows : TRUE
           next == IF db # Ok THEN [pc |-> "match", result |-> Fail(db)]
                   ELSE IF rows = {}
                   THEN [pc |-> "match", result |-> Fail(NotFoundError(inv[s].input.postId))]
                   ELSE [pc |-> "delete", result |-> inv[s].result]
       IN  inv' = [inv EXCEPT ![s].pc = next.pc, ![s].result = next.result,
                              ![s].existing = IF db = Ok THEN existing ELSE NoRow,
                              ![s].trace = Append(@, "db.select")]
    /\ UNCHANGED <<post, nextId>>
    /\ UNCHANGED Others

SelectPost(s, db) ==
    /\ inv[s].pc = "body"
    /\ inv[s].action = "deletePostAction"
    /\ LET rows == {p \in post : p.id = inv[s].input.postId}
           existing == IF rows = {} THEN NoRow ELSE CHOOSE p \in rows : TRUE
           next == IF db # Ok THEN [pc |-> "match", result |-> Fail(db)]
                   ELSE IF rows = {}
                   THEN [pc |-> "match", result |-> Fail(NotFoundError(inv[s].input.postId))]
                   ELSE IF existing.userId # inv[s].user
                        THEN [pc |-> "match", result |-> Fail(UnauthorizedError)]
                        ELSE [pc |-> "delete", result |-> inv[s].result]
       IN  inv' = [inv EXCEPT ![s].pc = next.pc, ![s].result = next.result,
                              ![s].existing = IF db = Ok THEN existing ELSE NoRow,
                              ![s].trace = Append(@, "db.select")]
    /\ UNCHANGED <<post, nextId>>
    /\ UNCHANGED Others

\* a variant whose statement deletes by owner instead of by id
DeletePostOfUser(s, db) ==
    /\ inv[s].pc = "delete"
    /\ IF db = Ok
       THEN /\ post' = {p \in post : p.userId # inv[s].user}
            /\ inv' = [inv EXCEPT ![s].pc = "match", ![s].result = Succeed(Undefined),
                                  ![s].trace = Append(@, "db.delete")]
       ELSE /\ post' = post
            /\ inv' = [inv EXCEPT ![s].pc = "match", ![s].result = Fail(db),
                                  ![s].trace = Append(@, "db.delete")]
    /\ UNCHANGED nextId
    /\ UNCHANGED Others

\* db.delete(schema.post).where(eq(schema.post.id, postId))
DeletePost(s, db) ==
    /\ inv[s].pc = "delete"
    /\ IF db = Ok
       THEN /\ post' = {p \in post : p.id # inv[s].input.postId}
            /\ inv' = [inv EXCEPT ![s].pc = "match", ![s].result = Succeed(Undefined),
                                  ![s].trace = Append(@, "db.delete")]
       ELSE /\ post' = post
            /\ inv' = [inv EXCEPT ![s].pc = "match", ![s].result = Fail(db),
                                  ![s].trace = Append(@, "db.delete")]
    /\ UNCHANGED nextId
    /\ UNCHANGED Others

\* key from Date.now(), s3.createSignedUrl(key, 300), s3.getUrlFromObjectKey(key)
SignUpload(s, s3, time) ==
    /\ inv[s].pc = "body"
    /\ inv[s].action = "getUploadUrlAction"
    /\ LET key == UploadKey(inv[s].input, inv[s].user, time)
           data == [signedUrl |-> PresignedUrl("put", key),
                    publicUrl |-> getUrlFromObjectKey(key), key |-> key]
       IN  inv' = [inv EXCEPT ![s].pc = "match",
                              ![s].result = IF s3 = Ok THEN Succeed(data) ELSE Fail(s3),
                              ![s].trace = Append(@, "s3.putObject")]
    /\ UNCHANGED <<post, nextId>>
    /\ UNCHANGED Others

\* s3.createSignedDownloadUrl(fileUrl, 300)
SignDownload(s, s3) ==
    /\ inv[s].pc = "body"
    /\ inv[s].action = "getDownloadUrlAction"
    /\ LET data == [signedUrl |-> PresignedUrl("get", KeyOf(inv[s].input.fileUrl))]
       IN  inv' = [inv EXCEPT ![s].pc = "match",
                              ![s].result = IF s3 = Ok THEN Succeed(data) ELSE Fail(s3),
                              ![s].trace = Append(@, "s3.getObject")]
    /\ UNCHANGED <<post, nextId>>
    /\ UNCHANGED Others

\* s3.deleteFile(key)
DeleteFile(s, s3) ==
    /\ inv[s].pc = "body"
    /\ inv[s].action = "deleteFileAction"
    /\ inv' = [inv EXCEPT ![s].pc = "match",
                          ![s].result = IF s3 = Ok THEN Succeed(Undefined) ELSE Fail(s3),
                          ![s].trace = Append(@, "s3.deleteObject")]
    /\ UNCHANGED <<post, nextId>>
    /\ UNCHANGED Others

\* page.tsx: yield* getPosts({ q, published, sortBy }) after its getSession
QueryPosts(s, db) ==
    /\ inv[s].pc = "body"
    /\ inv[s].action = "Content"
    /\ inv' = [inv EXCEPT ![s].pc = "match",
                          ![s].result = IF db = Ok THEN Succeed(getPosts(inv[s].user))
                                        ELSE Fail(db),
                          ![s].trace = Append(@, "db.select")]
    /\ UNCHANGED <<post, nextId>>
    /\ UNCHANGED Others

\* Effect.matchEffect: the dispatch on the result, then the action returns
MatchEffect(s) ==
    /\ inv[s].pc = "match"
    /\ LET m == IF inv[s].result.ok
                THEN OnSuccess(inv[s].action, inv[s].result.value)
                ELSE OnFailure(inv[s].action, inv[s].result.error)
       IN  inv' = [inv EXCEPT ![s].pc = "done", ![s].outcome = m.outcome,
                              ![s].revalidated = m.revalidated,
                              ![s].trace = IF m.revalidated > 0
                                           THEN Append(@, "revalidatePath") ELSE @]
    /\ UNCHANGED <<post, nextId>>
    /\ UNCHANGED Others

\* the client has its answer; the slot is free for the next call
Return(s) ==
    /\ inv[s].pc = "done"
    /\ inv' = [inv EXCEPT ![s] = Idle]
    /\ UNCHANGED <<post, nextId>>
    /\ UNCHANGED Others

-----------------------------------------------------------------------------
(* A server action arrives as a POST to the page that uses it *)

\* pages from which the client calls server actions
ActionPaths == {"/", "/dashboard"}

ActionRequests == {r \in Requests : r.path \in ActionPaths}

Calls == UNION {[action : {a}, input : InputsOf(a)] : a \in ServerActions}

\* the invocation slot that serves the HTTP request in flight
GateSlot == CHOOSE s \in Slots : \A t \in Slots : s <= t

ReceiveAction(r, call) ==
    /\ hpc = "idle"
    /\ r.path \in ActionPaths
    /\ hpc' = "matcher"
    /\ hreq' = r
    /\ hcall' = call
    /\ hdecision' = NoDecision
    /\ hresp' = NoResponse
    /\ hresult' = Fail(Ok)
    /\ htrace' = <<>>
    /\ UNCHANGED <<hprev, post, nextId, inv, actVars, extVars>>

\* routing hands the request that passed the proxy to the action
ActionCall(layer) ==
    /\ hpc = "route"
    /\ hcall # NoCall
    /\ Call(GateSlot, hcall.action, hcall.input, hreq.session, layer)

\* the action's outcome becomes the response
ActionRespond ==
    /\ hpc = "route"
    /\ hcall # NoCall
    /\ inv[GateSlot].pc = "done"
    /\ hresp' = IF HasTag(inv[GateSlot].outcome, "Redirect")
                THEN [kind |-> "redirect", to |-> inv[GateSlot].outcome.to, by |-> "route"]
                ELSE [kind |-> "action", outcome |-> inv[GateSlot].outcome]
    /\ hresult' = inv[GateSlot].result
    /\ htrace' = inv[GateSlot].trace
    /\ inv' = [inv EXCEPT ![GateSlot] = Idle]
    /\ hpc' = "done"
    /\ UNCHANGED <<hreq, hcall, hprev, hdecision, post, nextId, actVars, extVars>>

-----------------------------------------------------------------------------
(* lib/services/telegram/live-layer.ts *)

TELEGRAM_MESSAGE_MAX_LENGTH == 4096

CeilDiv(a, b) == (a + b - 1) \div b

Min(a, b) == IF a <= b THEN a ELSE b

\* a variant that rounds the number of chunks down
splitIntoChunksFloor(str, chunkSize) ==
    [i \in 1..(Len(str) \div chunkSize) |->
        SubSeq(str, (i - 1) * chunkSize + 1, Min(i * chunkSize, Len(str)))]

\* Array.from({ length }, (_, i) => str.slice(i * chunkSize, i * chunkSize + chunkSize))
splitIntoChunks(str, chunkSize) ==
    [i \in 1..CeilDiv(Len(str), chunkSize) |->
        SubSeq(str, (i - 1) * chunkSize + 1, Min(i * chunkSize, Len(str)))]

\* what the Telegram API may answer to one sendMessage
TelegramSendErrors ==
    [_tag : {"TelegramSendError"}, message : {"Telegram API error: 500 - "}]

TelegramResults == {Ok} \cup TelegramSendErrors

\* Telegram.send(message): one sendMessage per chunk, stopping at the first
\* failure; tapError logs it.  api is the answer of the Telegram API.
TelegramSend(message, api) ==
    LET chunks == splitIntoChunks(message, TELEGRAM_MESSAGE_MAX_LENGTH)
    IN  IF chunks = <<>> \/ api = Ok
        THEN [result |-> Succeed(Undefined), sent |-> chunks, logged |-> <<>>]
        ELSE [result |-> Fail(api), sent |-> <<>>, logged |-> <<"Telegram send failed">>]

-----------------------------------------------------------------------------
(* lib/services/activity: Log, format, formatDuration, getDuration *)

MaxLogs == 2

\* the fiber that runs the request, and the fibers send() forks, in fork order
RequestFiber == 0
OtherRequestFiber == 3
RequestFibers == {RequestFiber, OtherRequestFiber}
Daemons == {1, 2}
Fibers == RequestFibers \cup Daemons

\* readings of the clock, in milliseconds
Instants == {0, 2500}

Messages == {"a", "b"}

\* what each request logs; the two requests log different things
MessagesOf(f) == IF f = RequestFiber THEN {"first request"} ELSE {"other request"}

\* 21 box-drawing dashes in the source, written here with the ASCII dash
BORDER == "---------------------"

Pad(n, width) ==
    LET str == ToString(n)
    IN  SubSeq("000", 1, width - Len(str)) \o str

\* new Date().toISOString() within the first minute of the epoch
toISOString(ms) ==
    "1970-01-01T00:00:" \o Pad(ms \div 1000, 2) \o "." \o Pad(ms % 1000, 3) \o "Z"

DigitOf(c) == CHOOSE d \in 0..9 : ToString(d) = c

RECURSIVE ParseDigits(_)
ParseDigits(str) ==
    IF str = "" THEN 0
    ELSE 10 * ParseDigits(SubSeq(str, 1, Len(str) - 1)) + DigitOf(SubSeq(str, Len(str), Len(str)))

\* new Date(timestamp).getTime() of such a string
getTime(timestamp) ==
    1000 * ParseDigits(SubSeq(timestamp, 18, 19)) + ParseDigits(SubSeq(timestamp, 21, 23))

NewLog(ms, message) == [timestamp |-> toISOString(ms), message |-> message]

RECURSIVE Join(_, _)
Join(strs, sep) ==
    IF strs = <<>> THEN ""
    ELSE IF Len(strs) = 1 THEN strs[1]
    ELSE strs[1] \o sep \o Join(Tail(strs), sep)

\* an absent header or executionTime is "", which JS also treats as absent
format(messages, options) ==
    LET content == Join(messages, "\n")
        hasMultiple == Len(messages) > 1
        headerBlock == IF options.executionTime # ""
                       THEN options.header \o "\nExecution time: " \o options.executionTime
                       ELSE options.header
    IN  IF options.header = ""
        THEN IF hasMultiple THEN BORDER \o "\n" \o content \o "\n" \o BORDER ELSE content
        ELSE BORDER \o "\n" \o headerBlock \o "\n" \o BORDER \o "\n" \o content
                    \o "\n" \o BORDER

\* (ms / 1000).toFixed(1), for ms that are multiples of 100
formatDuration(ms) ==
    IF ms > 1000
    THEN ToString(ms \div 1000) \o "." \o ToString((ms % 1000) \div 100) \o "s"
    ELSE ToString(ms) \o "ms"

getDuration(logs) ==
    IF Len(logs) > 1
    THEN getTime(logs[Len(logs)].timestamp) - getTime(logs[1].timestamp)
    ELSE 0

-----------------------------------------------------------------------------
(* lib/services/activity: add, send *)

\* SendOptions; an absent header is "", absent timestamps is FALSE
SendOptions == [header : {"", "Deploy"}, timestamps : BOOLEAN]

NoOptions == [header |-> "", timestamps |-> FALSE]

\* the first argument of send(): nothing, a string or a SendOptions object
SendArguments ==
    {[kind |-> "undefined", message |-> "", options |-> NoOptions]}
        \cup [kind : {"string"}, message : {"", "done"}, options : {NoOptions}]
        \cup [kind : {"object"}, message : {""}, options : SendOptions]

NotForked == [pc |-> "none", parent |-> RequestFiber, message |-> "", opts |-> NoOptions,
              text |-> "", exit |-> Fail(Ok)]

\* the last reading of the clock a buffer has seen
LastInstant(logs) == IF logs = <<>> THEN 0 ELSE getTime(logs[Len(logs)].timestamp)

\* Effect.catchAll(() => Effect.void), with the rethrowing variant before it
CatchAllRethrow(result) == result

CatchAll(result) == IF result.ok THEN result ELSE Succeed(Undefined)

\* Effect.tapError(error => Effect.logError('Activity send failed', { error }))
TapError(result) == IF result.ok THEN <<>> ELSE <<"Activity send failed">>

ActivityFrame == <<hpc, hreq, hcall, hprev, hdecision, hresp, hresult, htrace,
                   post, nextId, inv, extVars>>

\* a variant with one buffer for the whole process instead of a FiberRef
AddShared(f, message, now) ==
    /\ Len(logsRef[f]) < MaxLogs
    /\ now >= LastInstant(logsRef[f])
    /\ logsRef' = [g \in Fibers |-> IF g \in RequestFibers
                                    THEN Append(logsRef[f], NewLog(now, message))
                                    ELSE logsRef[g]]
    /\ UNCHANGED <<daemon, delivered, errorLog, sendExit>>
    /\ UNCHANGED ActivityFrame

\* add(message) in the request run by fiber f:
\* FiberRef.update(LogsRef, logs => [...logs, { timestamp, message }])
AddIn(f, message, now) ==
    /\ Len(logsRef[f]) < MaxLogs
    /\ now >= LastInstant(logsRef[f])
    /\ logsRef' = [logsRef EXCEPT ![f] = Append(@, NewLog(now, message))]
    /\ UNCHANGED <<daemon, delivered, errorLog, sendExit>>
    /\ UNCHANGED ActivityFrame

Add(message, now) == AddIn(RequestFiber, message, now)

\* send(messageOrOptions, options): the body is handed to Effect.forkDaemon; the
\* new fiber starts with a copy of the caller's FiberRefs and the caller goes on
SendFrom(f, messageOrOptions, options) ==
    /\ Len(sendExit) < Cardinality(Daemons)
    /\ LET d == Len(sendExit) + 1
           message == IF messageOrOptions.kind = "string"
                      THEN messageOrOptions.message ELSE ""
           opts == IF messageOrOptions.kind = "object"
                   THEN messageOrOptions.options ELSE options
       IN  /\ daemon' = [daemon EXCEPT ![d] =
                  [pc |-> "start", parent |-> f, message |-> message, opts |-> opts,
                   text |-> "", exit |-> Fail(Ok)]]
           /\ logsRef' = [logsRef EXCEPT ![d] = logsRef[f]]
           /\ sendExit' = Append(sendExit, Succeed(d))
    /\ UNCHANGED <<delivered, errorLog>>
    /\ UNCHANGED ActivityFrame

Send(messageOrOptions, options) == SendFrom(RequestFiber, messageOrOptions, options)

\* the forked body up to telegram.send: read LogsRef, append the message, format;
\* message, opts and logs are locals of the body and are gone once text is built
DaemonStart(d, now) ==
    /\ daemon[d].pc = "start"
    /\ now >= LastInstant(logsRef[d])
    /\ LET logs == IF daemon[d].message # ""
                   THEN Append(logsRef[d], NewLog(now, daemon[d].message))
                   ELSE logsRef[d]
           opts == daemon[d].opts
           messages == [i \in 1..Len(logs) |->
                           IF opts.timestamps
                           THEN logs[i].timestamp \o " " \o logs[i].message
                           ELSE logs[i].message]
           text == format(messages,
                          [header |-> opts.header,
                           executionTime |-> IF opts.timestamps
                                             THEN formatDuration(getDuration(logs))
                                             ELSE ""])
       IN  IF Len(logs) = 0
           THEN daemon' = [daemon EXCEPT ![d] = [NotForked EXCEPT
                                     !.pc = "done", !.parent = daemon[d].parent,
                                     !.exit = Succeed(Undefined)]]
           ELSE daemon' = [daemon EXCEPT ![d] = [NotForked EXCEPT
                                     !.pc = "sending", !.parent = daemon[d].parent,
                                     !.text = text]]
    /\ UNCHANGED <<logsRef, delivered, errorLog, sendExit>>
    /\ UNCHANGED ActivityFrame

\* a variant that clears the buffer whether or not the delivery succeeded
DaemonDeliverClearing(d, api) ==
    /\ daemon[d].pc = "sending"
    /\ LET sending == TelegramSend(daemon[d].text, api)
       IN  /\ delivered' = delivered \o sending.sent
           /\ errorLog' = errorLog \o sending.logged \o TapError(sending.result)
           /\ daemon' = [daemon EXCEPT ![d].pc = "done", ![d].text = "",
                                       ![d].exit = CatchAll(sending.result)]
    /\ logsRef' = [logsRef EXCEPT ![d] = <<>>]
    /\ UNCHANGED sendExit
    /\ UNCHANGED ActivityFrame

\* yield* telegram.send(text), then on failure tapError and catchAll
DaemonDeliver(d, api) ==
    /\ daemon[d].pc = "sending"
    /\ LET sending == TelegramSend(daemon[d].text, api)
       IN  /\ delivered' = delivered \o sending.sent
           /\ errorLog' = errorLog \o sending.logged \o TapError(sending.result)
           /\ IF sending.result.ok
              THEN daemon' = [daemon EXCEPT ![d].pc = "clear", ![d].text = ""]
              ELSE daemon' = [daemon EXCEPT ![d].pc = "done", ![d].text = "",
                                            ![d].exit = CatchAll(sending.result)]
    /\ UNCHANGED <<logsRef, sendExit>>
    /\ UNCHANGED ActivityFrame

\* yield* FiberRef.set(LogsRef, []), in the fiber that runs the body
DaemonClear(d) ==
    /\ daemon[d].pc = "clear"
    /\ logsRef' = [logsRef EXCEPT ![d] = <<>>]
    /\ daemon' = [daemon EXCEPT ![d].pc = "done", ![d].exit = Succeed(Undefined)]
    /\ UNCHANGED <<delivered, errorLog, sendExit>>
    /\ UNCHANGED ActivityFrame

-----------------------------------------------------------------------------
(* lib/services/auth/get-session.ts: the session guards with the user's role *)

\* the role field as better-auth may hand it over
RawRoles == {"ADMIN", "USER", "admin", "MODERATOR", ""}

NoRawSession == [user |-> [id |-> NoSession, role |-> ""], present |-> FALSE]

\* what authService.getSessionFromCookies() answers: null or a session
RawSessions ==
    {NoRawSession} \cup [user : [id : Users, role : RawRoles], present : {TRUE}]

\* new UnauthorizedError({ message: 'Not authorized' })
NotAuthorizedError == [_tag |-> "UnauthorizedError", message |-> "Not authorized"]

\* const role = session.user.role === 'ADMIN' ? 'ADMIN' : 'USER'
AppSession(raw) ==
    [user |-> [id |-> raw.user.id,
               role |-> IF raw.user.role = "ADMIN" THEN "ADMIN" ELSE "USER"]]

\* getSession() with the whole session as its value
getSessionGuard(raw) ==
    IF ~raw.present THEN Fail(UnauthenticatedError) ELSE Succeed(AppSession(raw))

\* a variant that answers a missing session like a missing role
getAdminSessionUnauthorizedOnly(raw) ==
    LET session == getSessionGuard(raw)
    IN  IF ~session.ok \/ session.value.user.role # "ADMIN"
        THEN Fail(NotAuthorizedError)
        ELSE session

getAdminSession(raw) ==
    LET session == getSessionGuard(raw)
    IN  IF ~session.ok THEN session
        ELSE IF session.value.user.role # "ADMIN" THEN Fail(NotAuthorizedError)
        ELSE session

-----------------------------------------------------------------------------
(* lib/core/post/get-posts.ts: getPosts(params) *)

UpperCase == "ABCDEFGHIJKLMNOPQRSTUVWXYZ"
LowerCase == "abcdefghijklmnopqrstuvwxyz"

CharAt(str, i) == SubSeq(str, i, i)

Rest(str) == SubSeq(str, 2, Len(str))

toLowerCaseChar(c) ==
    IF \E i \in 1..Len(UpperCase) : CharAt(UpperCase, i) = c
    THEN CharAt(LowerCase, CHOOSE i \in 1..Len(UpperCase) : CharAt(UpperCase, i) = c)
    ELSE c

RECURSIVE toLowerCase(_)
toLowerCase(str) ==
    IF str = "" THEN "" ELSE toLowerCaseChar(CharAt(str, 1)) \o toLowerCase(Rest(str))

\* title ILIKE pattern: '%' stands for any run of characters, '_' for any one
\* character, every other character for itself in either case
RECURSIVE ilike(_, _)
ilike(str, pattern) ==
    IF pattern = "" THEN str = ""
    ELSE IF CharAt(pattern, 1) = "%"
         THEN ilike(str, Rest(pattern)) \/ (str # "" /\ ilike(Rest(str), pattern))
    ELSE IF str = "" THEN FALSE
    ELSE IF CharAt(pattern, 1) = "_" THEN ilike(Rest(str), Rest(pattern))
    ELSE /\ toLowerCaseChar(CharAt(str, 1)) = toLowerCaseChar(CharAt(pattern, 1))
         /\ ilike(Rest(str), Rest(pattern))

\* rows of schema.post with the columns getPosts looks at
StoredPosts ==
    {[id |-> 1, title |-> "Hello", published |-> TRUE, userId |-> "u1", createdAt |-> 1],
     [id |-> 2, title |-> "help", published |-> FALSE, userId |-> "u1", createdAt |-> 2],
     [id |-> 3, title |-> "World", published |-> TRUE, userId |-> "u1", createdAt |-> 3],
     [id |-> 4, title |-> "Hello", published |-> FALSE, userId |-> "u2", createdAt |-> 4],
     [id |-> 5, title |-> "a_b", published |-> TRUE, userId |-> "u2", createdAt |-> 5]}

\* params.q; null, undefined and '' are all '' here, as all three are falsy
QValues == {"", "he", "HEL", "xyz", "_", "%", "l_o"}

\* params.published
PublishedValues == {"null", "undefined", "true", "false"}

\* params.sortBy
SortByValues == {"undefined", "newest", "oldest", "title"}

GetPostsParams == [q : QValues, published : PublishedValues, sortBy : SortByValues]

\* the order of characters in the database's collation, as far as titles use them
Collation == "_ABCDEFGHIJKLMNOPQRSTUVWXYZabcdefghijklmnopqrstuvwxyz"

Rank(c) == CHOOSE i \in 1..Len(Collation) : CharAt(Collation, i) = c

RECURSIVE TitleBefore(_, _)
TitleBefore(a, b) ==
    IF b = "" THEN FALSE
    ELSE IF a = "" THEN TRUE
    ELSE IF CharAt(a, 1) = CharAt(b, 1) THEN TitleBefore(Rest(a), Rest(b))
    ELSE Rank(CharAt(a, 1)) < Rank(CharAt(b, 1))

\* asc(createdAt), asc(title) or desc(createdAt)
InOrder(sortBy, p, r) ==
    IF sortBy = "oldest" THEN p.createdAt <= r.createdAt
    ELSE IF sortBy = "title" THEN ~TitleBefore(r.title, p.title)
    ELSE p.createdAt >= r.createdAt

\* .orderBy(orderBy): the rows as a list in that order
OrderBy(rows, sortBy) ==
    CHOOSE list \in [1..Cardinality(rows) -> rows] :
        /\ \A i, j \in DOMAIN list : i # j => list[i] # list[j]
        /\ \A i, j \in DOMAIN list : i < j => InOrder(sortBy, list[i], list[j])

\* the conditions after eq(userId, user.id): ilike on the title, eq on published
Where(p, params) ==
    /\ params.q # "" => ilike(p.title, "%" \o params.q \o "%")
    /\ params.published \in {"true", "false"} => p.published = (params.published = "true")

getPostsWith(raw, params) ==
    LET session == getSessionGuard(raw)
    IN  IF ~session.ok THEN session
        ELSE Succeed(OrderBy({p \in StoredPosts : p.userId = session.value.user.id
                                                    /\ Where(p, params)},
                             params.sortBy))

-----------------------------------------------------------------------------
(* Calls of the guards and of getPosts, one at a time *)

NotApplied == [fn |-> "none", input |-> <<>>, output |-> Fail(Ok)]

FunctionsFrame == <<hpc, hreq, hcall, hprev, hdecision, hresp, hresult, htrace,
                    post, nextId, inv, actVars, tg, mi>>

CallGetSession(raw) ==
    /\ applied = NotApplied
    /\ applied' = [fn |-> "getSession", input |-> [raw |-> raw],
                   output |-> getSessionGuard(raw)]
    /\ UNCHANGED FunctionsFrame

CallGetAdminSession(raw) ==
    /\ applied = NotApplied
    /\ applied' = [fn |-> "getAdminSession", input |-> [raw |-> raw],
                   output |-> getAdminSession(raw)]
    /\ UNCHANGED FunctionsFrame

CallGetPosts(raw, params) ==
    /\ applied = NotApplied
    /\ applied' = [fn |-> "getPosts", input |-> [raw |-> raw, params |-> params],
                   output |-> getPostsWith(raw, params)]
    /\ UNCHANGED FunctionsFrame

\* the caller has its result
Returned ==
    /\ applied # NotApplied
    /\ applied' = NotApplied
    /\ UNCHANGED FunctionsFrame

-----------------------------------------------------------------------------
(* Telegram.send chunk by chunk *)

NotSending == [pc |-> "idle", message |-> "", chunks |-> <<>>, next |-> 1,
               accepted |-> <<>>, logged |-> <<>>, result |-> Fail(Ok)]

\* n characters of the unit repeated over and over
RECURSIVE Repeated(_, _)
Repeated(unit, n) ==
    IF n = 0 THEN ""
    ELSE IF n <= Len(unit) THEN SubSeq(unit, 1, n)
    ELSE LET half == Repeated(unit, (n + 1) \div 2)
         IN  SubSeq(half \o half, 1, n)

\* lengths around one, two and three times the limit of the Telegram API
TelegramLengths == {0, 1, 2, 4095, 4096, 4097, 8191, 8192, 8193, 12288, 12289}

TelegramMessages == {Repeated(unit, n) : unit \in {"abc", "12345"}, n \in TelegramLengths}

TelegramFrame == <<hpc, hreq, hcall, hprev, hdecision, hresp, hresult, htrace,
                   post, nextId, inv, actVars, applied, mi>>

\* send(message): the message is split, then the loop over the chunks begins
TelegramCall(message) ==
    /\ tg.pc = "idle"
    /\ tg' = [NotSending EXCEPT !.pc = "sending", !.message = message,
                                !.chunks = splitIntoChunks(message,
                                                           TELEGRAM_MESSAGE_MAX_LENGTH)]
    /\ UNCHANGED TelegramFrame

\* yield* sendMessage(chunk) for the next chunk; a failure ends the loop and
\* is logged by tapError
SendMessage(api) ==
    /\ tg.pc = "sending"
    /\ tg.next <= Len(tg.chunks)
    /\ IF api = Ok
       THEN tg' = [tg EXCEPT !.accepted = Append(@, tg.chunks[tg.next]), !.next = @ + 1]
       ELSE tg' = [tg EXCEPT !.pc = "done", !.result = Fail(api),
                             !.logged = Append(@, "Telegram send failed")]
    /\ UNCHANGED TelegramFrame

\* the loop has run through all chunks
SendCompletes ==
    /\ tg.pc = "sending"
    /\ tg.next > Len(tg.chunks)
    /\ tg' = [tg EXCEPT !.pc = "done", !.result = Succeed(Undefined)]
    /\ UNCHANGED TelegramFrame

\* the caller of send() has its result
TelegramReturns ==
    /\ tg.pc = "done"
    /\ tg' = NotSending
    /\ UNCHANGED TelegramFrame

-----------------------------------------------------------------------------
(* components/ui/mention-input.tsx *)

\* the suggestions prop; it stays the same through all renders
Suggestions ==
    <<[id |-> "1", name |-> "Alice"], [id |-> "2", name |-> "Alan"],
      [id |-> "3", name |-> "Bob"]>>

\* mentionStartIndex === null
NoMention == <<>>

\* the component after its first render with an empty value
Mounted ==
    [value |-> "", selectionStart |-> 0, showSuggestions |-> FALSE,
     suggestionFilter |-> "", selectedIndex |-> 0, mentionStartIndex |-> NoMention,
     mentionedIds |-> {}, blurTimers |-> 0, event |-> "mount"]

\* str.slice(from, to), counted from 0 as in JavaScript
slice(str, from, to) == SubSeq(str, from + 1, to)

\* str.includes(search)
includes(str, search) ==
    \E i \in 1..(Len(str) - Len(search) + 1) : SubSeq(str, i, i + Len(search) - 1) = search

\* str.lastIndexOf(char), counted from 0, -1 when the character is not there
lastIndexOf(str, char) ==
    LET at == {i \in 0..(Len(str) - 1) : slice(str, i, i + 1) = char}
    IN  IF at = {} THEN -1 ELSE CHOOSE i \in at : \A j \in at : j <= i

\* the memo of the suggestions whose name includes the filter in either case
filteredSuggestions(suggestionFilter) ==
    IF suggestionFilter = "" THEN Suggestions
    ELSE LET lower == toLowerCase(suggestionFilter)
             Test(sug) == includes(toLowerCase(sug.name), lower)
         IN  SelectSeq(Suggestions, Test)

\* the values the textarea may hold after an input event
Texts == {"", "@a", "@AL", "@b", "@zz", "@a ", "@a\n", "x@l"}

Keys == {"ArrowDown", "ArrowUp", "Enter", "Tab", "Escape", "a"}

\* the number of blur timeouts that may be pending at once
MaxTimers == 1

MentionFrame == <<hpc, hreq, hcall, hprev, hdecision, hresp, hresult, htrace,
                  post, nextId, inv, actVars, applied, tg>>

\* the useEffect on value: an empty value clears the mentioned ids
AfterRender(mentionedIds, value) == IF value = "" THEN {} ELSE mentionedIds

\* a variant of handleInput without setSelectedIndex(0)
handleInputKeepsIndex(newValue, cursorPos) ==
    /\ LET textBeforeCursor == slice(newValue, 0, cursorPos)
           lastAtIndex == lastIndexOf(textBeforeCursor, "@")
           textAfterAt == slice(textBeforeCursor, lastAtIndex + 1, Len(textBeforeCursor))
           typed == [mi EXCEPT !.value = newValue, !.selectionStart = cursorPos,
                               !.mentionedIds = AfterRender(@, newValue),
                               !.event = "input"]
       IN  IF /\ lastAtIndex # -1
              /\ ~includes(textAfterAt, " ")
              /\ ~includes(textAfterAt, "\n")
           THEN mi' = [typed EXCEPT !.mentionStartIndex = <<lastAtIndex>>,
                                    !.suggestionFilter = textAfterAt,
                                    !.showSuggestions = TRUE]
           ELSE mi' = [typed EXCEPT !.showSuggestions = FALSE,
                                    !.mentionStartIndex = NoMention,
                                    !.suggestionFilter = ""]
    /\ UNCHANGED MentionFrame

\* handleInput: onChange(newValue), then the suggestions open on the text
\* after the last '@' before the cursor, or close when there is none or a
\* space or a newline follows it
handleInput(newValue, cursorPos) ==
    /\ LET textBeforeCursor == slice(newValue, 0, cursorPos)
           lastAtIndex == lastIndexOf(textBeforeCursor, "@")
           textAfterAt == slice(textBeforeCursor, lastAtIndex + 1, Len(textBeforeCursor))
           typed == [mi EXCEPT !.value = newValue, !.selectionStart = cursorPos,
                               !.mentionedIds = AfterRender(@, newValue),
                               !.event = "input"]
       IN  IF /\ lastAtIndex # -1
              /\ ~includes(textAfterAt, " ")
              /\ ~includes(textAfterAt, "\n")
           THEN mi' = [typed EXCEPT !.mentionStartIndex = <<lastAtIndex>>,
                                    !.suggestionFilter = textAfterAt,
                                    !.showSuggestions = TRUE,
                                    !.selectedIndex = 0]
           ELSE mi' = [typed EXCEPT !.showSuggestions = FALSE,
                                    !.mentionStartIndex = NoMention,
                                    !.suggestionFilter = ""]
    /\ UNCHANGED MentionFrame

\* insertMention(suggestion): the state it leaves; the cursor is put behind the
\* mention by its setTimeout(0)
insertMention(suggestion, event) ==
    IF mi.mentionStartIndex = NoMention THEN [mi EXCEPT !.event = event]
    ELSE LET beforeMention == slice(mi.value, 0, mi.mentionStartIndex[1])
             afterCursor == slice(mi.value, mi.selectionStart, Len(mi.value))
             mentionText == "@" \o suggestion.name
         IN  [mi EXCEPT !.value = beforeMention \o mentionText \o " " \o afterCursor,
                        !.mentionedIds = @ \cup {suggestion.id},
                        !.showSuggestions = FALSE,
                        !.mentionStartIndex = NoMention,
                        !.suggestionFilter = "",
                        !.selectionStart = Len(beforeMention) + Len(mentionText) + 1,
                        !.event = event]

\* handleKeyDown: nothing while the list is hidden or empty; reading
\* filteredSuggestions[selectedIndex] beyond the list gives undefined, whose
\* name insertMention cannot read
handleKeyDown(key) ==
    /\ LET filtered == filteredSuggestions(mi.suggestionFilter)
           length == Len(filtered)
       IN  IF ~mi.showSuggestions \/ length = 0
           THEN mi' = [mi EXCEPT !.event = key]
           ELSE CASE key = "ArrowDown" ->
                       mi' = [mi EXCEPT !.selectedIndex = (@ + 1) % length, !.event = key]
                  [] key = "ArrowUp" ->
                       mi' = [mi EXCEPT !.selectedIndex = (@ - 1 + length) % length,
                                        !.event = key]
                  [] key \in {"Enter", "Tab"} ->
                       IF mi.selectedIndex + 1 \in DOMAIN filtered
                       THEN mi' = insertMention(filtered[mi.selectedIndex + 1], key)
                       ELSE mi' = [mi EXCEPT !.event = "TypeError"]
                  [] key = "Escape" ->
                       mi' = [mi EXCEPT !.showSuggestions = FALSE, !.event = key]
                  [] OTHER -> mi' = [mi EXCEPT !.event = key]
    /\ UNCHANGED MentionFrame

\* onMouseDown on the button of a suggestion of the rendered list
onMouseDown(index) ==
    /\ mi.showSuggestions
    /\ index + 1 \in DOMAIN filteredSuggestions(mi.suggestionFilter)
    /\ mi' = insertMention(filteredSuggestions(mi.suggestionFilter)[index + 1], "mousedown")
    /\ UNCHANGED MentionFrame

\* onBlur: setTimeout(() => setShowSuggestions(false), 150)
onBlur ==
    /\ mi.blurTimers < MaxTimers
    /\ mi' = [mi EXCEPT !.blurTimers = @ + 1, !.event = "blur"]
    /\ UNCHANGED MentionFrame

\* a blur timeout fires
BlurTimeout ==
    /\ mi.blurTimers > 0
    /\ mi' = [mi EXCEPT !.blurTimers = @ - 1, !.showSuggestions = FALSE,
                        !.event = "timeout"]
    /\ UNCHANGED MentionFrame

-----------------------------------------------------------------------------
(* Specifications *)

Init ==
    /\ hpc = "idle"
    /\ hreq = NoRequest
    /\ hdecision = NoDecision
    /\ hresp = NoResponse
    /\ hcall = NoCall
    /\ hprev = NoPrevious
    /\ hresult = Fail(Ok)
    /\ htrace = <<>>
    /\ post = SeedPosts
    /\ nextId = 2
    /\ inv = [s \in Slots |-> Idle]
    /\ logsRef = [f \in Fibers |-> <<>>]
    /\ daemon = [d \in Daemons |-> NotForked]
    /\ delivered = <<>>
    /\ errorLog = <<>>
    /\ sendExit = <<>>
    /\ applied = NotApplied
    /\ tg = NotSending
    /\ mi = Mounted

DbResults == {Ok} \cup SqlErrors

S3Results == {Ok} \cup S3ClientErrors

LayerResults == {Ok} \cup S3ConfigErrors

Next ==
    \/ \E s \in Slots, a \in EntryPoints, session \in Sessions, layer \in LayerResults :
          \E input \in InputsOf(a) : Call(s, a, input, session, layer)
    \/ \E s \in Slots : GetSession(s)
    \/ \E s \in Slots, db \in DbResults : InsertPost(s, db)
    \/ \E s \in Slots, db \in DbResults : SelectPost(s, db)
    \/ \E s \in Slots, db \in DbResults : DeletePost(s, db)
    \/ \E s \in Slots, s3 \in S3Results, time \in Times : SignUpload(s, s3, time)
    \/ \E s \in Slots, s3 \in S3Results : SignDownload(s, s3)
    \/ \E s \in Slots, s3 \in S3Results : DeleteFile(s, s3)
    \/ \E s \in Slots, db \in DbResults : QueryPosts(s, db)
    \/ \E s \in Slots : MatchEffect(s)
    \/ \E s \in Slots : Return(s)

Spec == Init /\ [][Next]_vars

NextGate ==
    \/ /\ hpc = "idle"
       /\ \E r \in Requests : Receive(r)
    \/ /\ hpc = "idle"
       /\ \E r \in ActionRequests, call \in Calls : ReceiveAction(r, call)
    \/ \E layer \in LayerResults : ActionCall(layer)
    \/ GetSession(GateSlot)
    \/ \E db \in DbResults : InsertPost(GateSlot, db)
    \/ \E db \in DbResults : SelectPost(GateSlot, db)
    \/ \E db \in DbResults : DeletePost(GateSlot, db)
    \/ \E s3 \in S3Results, time \in Times : SignUpload(GateSlot, s3, time)
    \/ \E s3 \in S3Results : SignDownload(GateSlot, s3)
    \/ \E s3 \in S3Results : DeleteFile(GateSlot, s3)
    \/ MatchEffect(GateSlot)
    \/ ActionRespond
    \/ Matcher
    \/ Proxy
    \/ \E layer \in LayerResults, db \in DbResults : RoutePage(layer, db)
    \/ \E db \in DbResults : RouteApi(db)
    \/ RouteOther
    \/ Respond

SpecGate == Init /\ [][NextGate]_vars

\* requests whose cookies all carry a value and that no session stands behind
RepeatRequests ==
    {r \in Requests : r.session = NoSession /\ \A n \in DOMAIN r.cookies : r.cookies[n] = "tok"}

NextGateRepeat ==
    \/ /\ hpc = "idle"
       /\ \E r \in RepeatRequests : Receive(r)
    \/ Matcher
    \/ Proxy
    \/ \E layer \in LayerResults, db \in DbResults : RoutePage(layer, db)
    \/ \E db \in DbResults : RouteApi(db)
    \/ RouteOther
    \/ Respond
    \/ RespondRemember

SpecGateRepeat == Init /\ [][NextGateRepeat]_vars

NextActivity ==
    \/ \E message \in Messages, now \in Instants : Add(message, now)
    \/ \E messageOrOptions \in SendArguments, options \in {NoOptions} \cup SendOptions :
          Send(messageOrOptions, options)
    \/ \E d \in Daemons, now \in Instants : DaemonStart(d, now)
    \/ \E d \in Daemons, api \in TelegramResults : DaemonDeliver(d, api)
    \/ \E d \in Daemons : DaemonClear(d)

SpecActivity == Init /\ [][NextActivity]_vars

\* how the two requests call send(): bare, or with a header and timestamps
RequestSendArguments ==
    {a \in SendArguments :
        \/ a.kind = "undefined"
        \/ a.kind = "object" /\ a.options.header # "" /\ a.options.timestamps}

NextTelegram ==
    \/ /\ tg.pc = "idle"
       /\ \E message \in TelegramMessages : TelegramCall(message)
    \/ \E api \in TelegramResults : SendMessage(api)
    \/ SendCompletes
    \/ TelegramReturns

SpecTelegram == Init /\ [][NextTelegram]_vars

NextMention ==
    \/ \E newValue \in Texts : \E cursorPos \in 0..Len(newValue) :
          handleInput(newValue, cursorPos)
    \/ \E key \in Keys : handleKeyDown(key)
    \/ \E index \in 0..(Len(Suggestions) - 1) : onMouseDown(index)
    \/ onBlur
    \/ BlurTimeout

SpecMention == Init /\ [][NextMention]_vars

NextFunctions ==
    \/ /\ applied = NotApplied
       /\ \E raw \in RawSessions : CallGetSession(raw)
    \/ /\ applied = NotApplied
       /\ \E raw \in RawSessions : CallGetAdminSession(raw)
    \/ /\ applied = NotApplied
       /\ \E raw \in RawSessions, params \in GetPostsParams : CallGetPosts(raw, params)
    \/ Returned

SpecFunctions == Init /\ [][NextFunctions]_vars

\* two requests handled at the same time, each in its own fiber
NextRequests ==
    \/ \E f \in RequestFibers, now \in Instants :
          \E message \in MessagesOf(f) : AddIn(f, message, now)
    \/ \E f \in RequestFibers, messageOrOptions \in RequestSendArguments :
          SendFrom(f, messageOrOptions, NoOptions)
    \/ \E d \in Daemons, now \in Instants : DaemonStart(d, now)
    \/ \E d \in Daemons, api \in TelegramResults : DaemonDeliver(d, api)
    \/ \E d \in Daemons : DaemonClear(d)

SpecRequests == Init /\ [][NextRequests]_vars

TypeOK ==
    /\ hpc \in {"idle", "matcher", "proxy", "route", "done"}
    /\ nextId \in 2..(MaxId + 1)
    /\ \A s \in Slots : inv[s].pc \in {"idle", "session", "body", "delete", "match", "done"}


-----------------------------------------------------------------------------
(* Properties of the Gate (checked under SpecGate) *)

\* proxy() has returned for the request in flight
Gated == hdecision._tag \in {"Allow", "Redirect"}

SessionCookies == {SESSION_COOKIE, SECURE_SESSION_COOKIE}

SessionCookiePresent == \E n \in SessionCookies : n \in DOMAIN hreq.cookies

NonEmptySessionCookie ==
    \E n \in SessionCookies : n \in DOMAIN hreq.cookies /\ hreq.cookies[n] # ""

\* the paths the allow-list makes public: '/' itself and whatever begins with '/login'
PublicPath == hreq.path = "/" \/ StartsWith(hreq.path, "/login")

\* C1 as stated: off the public list, Allow only with a session cookie holding a
\* non-empty value, and a redirect to '/login' when neither cookie is present
C1_Original ==
    (Gated /\ ~PublicPath) =>
        /\ hdecision._tag = "Allow" => NonEmptySessionCookie
        /\ ~SessionCookiePresent => hdecision = [_tag |-> "Redirect", to |-> "/login"]

\* C1 amended: off the public list, the Gate allows exactly when one of the two session
\* cookie names is in the jar, whatever its value (the empty value included), and
\* redirects to '/login' otherwise
C1_Amended ==
    (Gated /\ ~PublicPath) =>
        /\ hdecision._tag = "Allow" <=> SessionCookiePresent
        /\ ~SessionCookiePresent => hdecision = [_tag |-> "Redirect", to |-> "/login"]

C1_Witness ==
    /\ Gated
    /\ hreq.path = "/dashboard"
    /\ DOMAIN hreq.cookies = {SECURE_SESSION_COOKIE}
    /\ hreq.cookies[SECURE_SESSION_COOKIE] = ""
    /\ hdecision._tag = "Allow"

\* C2: a path on the public list (exact entry or prefix entry) is allowed whatever
\* the cookie jar holds
C2_PublicAllowed == (Gated /\ PublicPath) => hdecision._tag = "Allow"

C2_Witness ==
    /\ Gated
    /\ hreq.path = "/login"
    /\ hreq.cookies = <<>>
    /\ hdecision._tag = "Allow"

\* C3 as stated: only the exact paths '/' and '/login' are public, so every other
\* path without a session cookie is redirected to '/login'
C3_Original ==
    (Gated /\ hreq.path \notin {"/", "/login"} /\ ~SessionCookiePresent) =>
        hdecision = [_tag |-> "Redirect", to |-> "/login"]

\* C3 amended: the entry '/login' is public as an exact path and as a prefix; without
\* a session cookie a path is redirected to '/login' exactly when it is neither '/'
\* nor begins with '/login'
C3_Amended ==
    (Gated /\ ~SessionCookiePresent) =>
        /\ hdecision._tag \in {"Allow", "Redirect"}
        /\ hdecision = [_tag |-> "Redirect", to |-> "/login"]
              <=> (hreq.path # "/" /\ ~StartsWith(hreq.path, "/login"))

C3_Witness ==
    /\ Gated
    /\ hreq.path = "/loginx"
    /\ ~SessionCookiePresent
    /\ hdecision._tag = "Allow"

\* C4: every Allow decision carries the header x-pathname with the inbound path
C4_PathHeader ==
    (Gated /\ hdecision._tag = "Allow") =>
        /\ "x-pathname" \in DOMAIN hdecision.headers
        /\ hdecision.headers["x-pathname"] = hreq.path

C4_Witness ==
    /\ Gated
    /\ hdecision._tag = "Allow"
    /\ hreq.path = "/settings/profile"
    /\ SessionCookiePresent
    /\ hdecision.headers["x-pathname"] = "/settings/profile"

-----------------------------------------------------------------------------
(* Properties of the Outcome Mapper (checked under Spec) *)

Finished(s) == inv[s].pc = "done"

Failed(s) == Finished(s) /\ ~inv[s].result.ok

Succeeded(s) == Finished(s) /\ inv[s].result.ok

FailedWith(s, tag) == Failed(s) /\ inv[s].result.error._tag = tag

RedirectToLogin == [_tag |-> "Redirect", to |-> "/login"]

\* C5: at every interactive entry point a computation that fails with
\* UnauthenticatedError ends in a redirect to '/login', never in an inline error
C5_UnauthenticatedRedirects ==
    \A s \in Slots :
        FailedWith(s, "UnauthenticatedError") =>
            /\ inv[s].action \in EntryPoints
            /\ inv[s].outcome = RedirectToLogin

C5_Witness ==
    \E s \in Slots :
        /\ FailedWith(s, "UnauthenticatedError")
        /\ inv[s].action = "deletePostAction"
        /\ inv[s].outcome = RedirectToLogin

\* the fields of an outcome besides its discriminant
PayloadFields(o) == DOMAIN o \ {"_tag"}

\* the payload carries the computation's value: spread into the outcome, or (as the
\* call site of createPostAction names it) under one key holding the whole value
CarriesValue(o, v) ==
    \/ /\ PayloadFields(o) = DOMAIN v
       /\ \A f \in DOMAIN v : o[f] = v[f]
    \/ /\ Cardinality(PayloadFields(o)) = 1
       /\ \A f \in PayloadFields(o) : o[f] = v

\* C7 as stated: every server action whose computation succeeds returns a value with
\* _tag 'Success' whose other fields are those of the computation's return value
C7_Original ==
    \A s \in Slots :
        (Succeeded(s) /\ inv[s].action \in ServerActions) =>
            /\ HasTag(inv[s].outcome, "Success")
            /\ CarriesValue(inv[s].outcome, inv[s].result.value)

\* C8: at every server action a failure other than UnauthenticatedError yields exactly
\* {_tag: 'Error', message} with a non-empty message and no success field
C8_ErrorPayload ==
    \A s \in Slots :
        (Failed(s) /\ inv[s].action \in ServerActions
                   /\ inv[s].result.error._tag # "UnauthenticatedError") =>
            /\ DOMAIN inv[s].outcome = {"_tag", "message"}
            /\ inv[s].outcome._tag = "Error"
            /\ Len(inv[s].outcome.message) > 0

C8_Witness ==
    \E s \in Slots :
        /\ FailedWith(s, "SqlError")
        /\ inv[s].result.error.message = ""
        /\ inv[s].action = "deletePostAction"
        /\ inv[s].outcome = [_tag |-> "Error", message |-> "Something went wrong"]

\* how often "revalidatePath" occurs among the effects of an invocation
Revalidations(s) ==
    Cardinality({i \in DOMAIN inv[s].trace : inv[s].trace[i] = "revalidatePath"})

\* C9: createPostAction and deletePostAction call revalidatePath('/') exactly once when
\* the computation succeeds and never when it fails
C9_RevalidateOnce ==
    \A s \in Slots :
        (Finished(s) /\ inv[s].action \in {"createPostAction", "deletePostAction"}) =>
            /\ inv[s].revalidated = (IF inv[s].result.ok THEN 1 ELSE 0)
            /\ Revalidations(s) = inv[s].revalidated

C9_Witness ==
    \E s, t \in Slots :
        /\ Succeeded(s) /\ inv[s].action = "createPostAction" /\ Revalidations(s) = 1
        /\ FailedWith(t, "UnauthorizedError") /\ Revalidations(t) = 0

\* C10: every error of a server action's error channel is absorbed into one of the two
\* outcomes Redirect('/login') or {_tag: 'Error', message}; none escapes as a failure
C10_MapperTotal ==
    \A s \in Slots :
        (Failed(s) /\ inv[s].action \in ServerActions) =>
            \/ inv[s].outcome = RedirectToLogin
            \/ /\ HasTag(inv[s].outcome, "Error")
               /\ "message" \in DOMAIN inv[s].outcome

C10_Witness ==
    \E s \in Slots :
        /\ FailedWith(s, "S3ServiceError")
        /\ inv[s].action = "getDownloadUrlAction"
        /\ inv[s].outcome = [_tag |-> "Error", message |-> "Failed to generate download URL"]


-----------------------------------------------------------------------------
(* Messages shown to the user (checked under Spec) *)

\* sub occurs somewhere in str
Contains(str, sub) ==
    \E i \in 1..(Len(str) - Len(sub) + 1) : SubSeq(str, i, i + Len(sub) - 1) = sub

\* failures of the database, of S3 and of the configuration
InfrastructureTags == {"SqlError", "S3ConfigError", "S3ServiceError"}

MessageOf(o) == IF "message" \in DOMAIN o THEN o.message ELSE ""

\* C11 as stated: the message text of an infrastructure failure is never part of an
\* outcome returned by the server actions or the home page Content
C11_Original ==
    \A s \in Slots :
        (Failed(s) /\ inv[s].result.error._tag \in InfrastructureTags
                   /\ Len(inv[s].result.error.message) > 0) =>
            ~Contains(MessageOf(inv[s].outcome), inv[s].result.error.message)

-----------------------------------------------------------------------------
(* Properties of the Activity service (checked under SpecActivity) *)

\* a forked body finishes its last statement, FiberRef.set(LogsRef, [])
FlushCompletes(d) == daemon[d].pc = "clear" /\ daemon'[d].pc = "done"

\* C12 as stated: once a send() has delivered and cleared, the buffer add()
\* appends to in the request is empty, so a later send() starts from nothing.
C12_Original ==
    [][\A d \in Daemons : FlushCompletes(d) => logsRef'[RequestFiber] = <<>>]_vars

\* the caller's call of send() returns in this step
SendReturns == Len(sendExit') = Len(sendExit) + 1

\* the delivery of a forked body fails in this step
DeliveryFails(d) == daemon[d].pc = "sending" /\ daemon'[d].pc = "done"

C13_State ==
    /\ \A i \in 1..Len(sendExit) : sendExit[i].ok
    /\ \A d \in Daemons : daemon[d].pc = "done" => daemon[d].exit.ok

C13_Step ==
    /\ SendReturns =>
          /\ sendExit'[Len(sendExit')].ok
          /\ daemon'[Len(sendExit')].pc = "start"
          /\ delivered' = delivered
          /\ errorLog' = errorLog
    /\ \A d \in Daemons : DeliveryFails(d) =>
          /\ errorLog' = errorLog \o <<"Telegram send failed", "Activity send failed">>
          /\ sendExit' = sendExit
          /\ daemon'[d].exit.ok

\* C13: send() returns successfully to its caller when the body is forked, before
\* any delivery; a delivery that fails later is logged, the forked fiber still
\* ends successfully and what the caller got is not changed.
C13_FireAndForget == []C13_State /\ [][C13_Step]_vars

\* both calls of send() have returned; the first delivery has failed and been
\* logged, the second is still on its way
C13_Witness ==
    /\ Len(sendExit) = 2
    /\ daemon[1].pc = "done"
    /\ errorLog = <<"Telegram send failed", "Activity send failed">>
    /\ daemon[2].pc = "sending"
    /\ delivered = <<>>

-----------------------------------------------------------------------------
(* Order of the Gate and the route handler (checked under SpecGate) *)

\* some step of a route handler has happened for the request in flight
RouteHandlerRan ==
    \/ inv[GateSlot].pc # "idle"
    \/ htrace # <<>>
    \/ hresult # Fail(Ok)
    \/ hresp.kind \in {"page", "json", "action", "other"}
    \/ hresp.kind = "redirect" /\ hresp.by = "route"

C14_State ==
    /\ (MatcherMatches(hreq.path) /\ RouteHandlerRan) => hdecision._tag = "Allow"
    /\ hdecision._tag = "Redirect" =>
          /\ ~RouteHandlerRan
          /\ hpc = "done"
          /\ hresp = [kind |-> "redirect", to |-> LoginPath, by |-> "proxy"]

C14_Step == hdecision._tag = "Redirect" => UNCHANGED <<post, nextId, inv, htrace, hresult>>

-----------------------------------------------------------------------------
(* Credential validity downstream of the Gate (checked under SpecGate) *)

\* proxy allowed the request for its cookie, but auth.api.getSession finds no session
StaleCookie ==
    /\ hdecision._tag = "Allow"
    /\ SessionCookiePresent
    /\ hreq.session = NoSession

DataEffects == {"db.insert", "db.select", "db.delete",
                "s3.putObject", "s3.getObject", "s3.deleteObject"}

Performed(trace) == {trace[i] : i \in 1..Len(trace)}

\* the response shows rows, a created row or a signed URL
CarriesProtectedData ==
    \/ hresp.kind = "page" /\ hresp.element._tag = "PostList"
    \/ hresp.kind = "action" /\ HasTag(hresp.outcome, "Success")
    \/ hresp.kind = "json" /\ hresp.status = 200

C15_State ==
    StaleCookie =>
        /\ Performed(htrace) \cap DataEffects = {}
        /\ Performed(inv[GateSlot].trace) \cap DataEffects = {}
        /\ ~CarriesProtectedData
        /\ (hpc = "done" /\ "getSession" \in Performed(htrace)) =>
              hresp = [kind |-> "redirect", to |-> LoginPath, by |-> "route"]

C15_Step == StaleCookie => UNCHANGED <<post, nextId>>

\* C15: a request proxy allowed for its session cookie, and for which the
\* authentication collaborator reports no session, performs no query, write or
\* object-store call and gets no protected data; where the page or the action
\* called getSession the response is the redirect to '/login'.
C15_ValidityDownstream == []C15_State /\ [][C15_Step]_vars

\* createPostAction, posted with a cookie no session stands behind, was redirected
\* by the action itself
C15_Witness ==
    /\ StaleCookie
    /\ hpc = "done"
    /\ hcall.action = "createPostAction"
    /\ htrace = <<"getSession">>
    /\ hresp = [kind |-> "redirect", to |-> LoginPath, by |-> "route"]

-----------------------------------------------------------------------------
(* What the Gate's decision depends on (checked under SpecGate) *)

\* the two jars hold the same ones of the two session cookie names
SamePresence(c1, c2) ==
    \A n \in SessionCookies : (n \in DOMAIN c1) <=> (n \in DOMAIN c2)

\* the request in flight with another cookie jar
WithCookies(c) == [hreq EXCEPT !.cookies = c]

\* C16: the decision proxy gave the request is the decision it gives the same
\* path with any jar that holds the same ones of the two session cookie names,
\* whatever their values and whatever other cookies; for a public path it is
\* the decision for every jar.
C16_PresenceOnly ==
    Gated =>
        \A c \in CookieJars :
            (PublicPath \/ SamePresence(c, hreq.cookies)) => proxy(WithCookies(c)) = hdecision

\* a protected path allowed on an empty-valued session cookie next to an
\* unrelated cookie
C16_Witness ==
    /\ hdecision._tag = "Allow"
    /\ ~PublicPath
    /\ DOMAIN hreq.cookies = {SESSION_COOKIE, "theme"}
    /\ hreq.cookies[SESSION_COOKIE] = ""

-----------------------------------------------------------------------------
(* The Gate as a function (checked under SpecGateRepeat) *)

\* the request in flight has the path and the cookies of the remembered one
SameInput == hprev.request.path = hreq.path /\ hprev.request.cookies = hreq.cookies

-----------------------------------------------------------------------------
(* Which paths the Gate is applied to (checked under SpecGate) *)

\* the matcher has been evaluated for the request in flight
MatcherDone == hpc \in {"proxy", "route", "done"}

\* the matcher kept the request away from proxy
Skipped == hdecision = NotGated

AfterSlash(pathname) == SubSeq(pathname, 2, Len(pathname))

EndsInImageExtension(pathname) ==
    \E e \in {"svg", "png", "jpg", "jpeg", "gif", "webp"} : EndsWith(pathname, "." \o e)

ExcludedAsStated(pathname) ==
    \/ \E p \in {"api", "_next/static", "_next/image"} : StartsWith(AfterSlash(pathname), p)
    \/ AfterSlash(pathname) \in {"favicon.ico", "sitemap.xml", "robots.txt"}
    \/ EndsInImageExtension(pathname)

\* C18 as stated: the Gate is skipped exactly for the API and asset prefixes, the
\* three files by their exact names, and the image extensions.
C18_Original == MatcherDone => (Skipped <=> ExcludedAsStated(hreq.path))

\* name, any one character, extension, and whatever follows
BeginsLikeFile(rest, name, ext) ==
    /\ StartsWith(rest, name)
    /\ Len(rest) > Len(name)
    /\ StartsWith(SubSeq(rest, Len(name) + 2, Len(rest)), ext)

ExcludedAmended(pathname) ==
    \/ \E p \in {"api", "_next/static", "_next/image"} : StartsWith(AfterSlash(pathname), p)
    \/ \E f \in {<<"favicon", "ico">>, <<"sitemap", "xml">>, <<"robots", "txt">>} :
          BeginsLikeFile(AfterSlash(pathname), f[1], f[2])
    \/ EndsInImageExtension(pathname)

\* C18 amended: the three file names are prefixes too, and their '.' stands for
\* any one character.
C18_Amended == MatcherDone => (Skipped <=> ExcludedAmended(hreq.path))

\* a path that only begins like robots.txt never reaches proxy
C18_Witness ==
    /\ hreq.path = "/robots.txt.bak"
    /\ hreq.cookies = <<>>
    /\ Skipped
    /\ hresp = [kind |-> "other"]

-----------------------------------------------------------------------------
(* Ownership of posts (checked under Spec) *)

\* invocation s carries out its db.delete in this step
Deletes(s) ==
    /\ inv[s].action = "deletePostAction"
    /\ inv[s].pc = "delete"
    /\ inv'[s].pc = "match"

C19_Step ==
    \A p \in post \ post' :
        \E s \in Slots : Deletes(s) /\ inv[s].user = p.userId /\ inv[s].input.postId = p.id

C19_State ==
    \A s \in Slots :
        FailedWith(s, "UnauthorizedError") =>
            /\ inv[s].outcome = ErrorOutcome("You can only delete your own posts")
            /\ \A i \in 1..Len(inv[s].trace) : inv[s].trace[i] # "db.delete"

\* C19: a row leaves the post table only in the db.delete of a deletePostAction
\* whose session user is the row's userId; a call on somebody else's post ends
\* with the payload 'You can only delete your own posts' and never reaches
\* db.delete.
C19_OwnerOnly == []C19_State /\ [][C19_Step]_vars

\* u2 was refused the seed post of u1, u1 has deleted it
C19_Witness ==
    \E s, t \in Slots :
        /\ FailedWith(s, "UnauthorizedError")
        /\ inv[s].user = "u2"
        /\ Succeeded(t)
        /\ inv[t].action = "deletePostAction"
        /\ inv[t].user = "u1"
        /\ post = {}

-----------------------------------------------------------------------------
(* Upload keys (checked under Spec) *)

\* invocation s has answered getUploadUrlAction with a key
Uploaded(s) == Succeeded(s) /\ inv[s].action = "getUploadUrlAction"

\* C20 as stated: every key is folder/<user id>/<timestamp>-<fileName>, and no
\* two invocations that have answered hold the same key.
C20_Original ==
    /\ \A s \in Slots :
          Uploaded(s) =>
              \E time \in Times :
                  inv[s].outcome.key =
                      inv[s].input.folder \o "/" \o inv[s].user \o "/"
                          \o ToString(time) \o "-" \o inv[s].input.fileName
    /\ \A s, t \in Slots :
          (s # t /\ Uploaded(s) /\ Uploaded(t)) => inv[s].outcome.key # inv[t].outcome.key

-----------------------------------------------------------------------------
(* The buffer of Activity belongs to one request (checked under SpecRequests) *)

OtherRequest(f) == CHOOSE g \in RequestFibers : g # f

\* text shows something the request run by fiber f has logged
ShowsEntryOf(text, f) == \E m \in MessagesOf(f) : Contains(text, m)

\* C21: the buffer of a request holds only what that request added, so a request
\* that has added nothing has an empty buffer; the text a send() of one request
\* hands to Telegram shows no entry of the other request, and no delivered text
\* shows entries of both.
C21_RequestLocal ==
    /\ \A f \in RequestFibers :
          \A i \in 1..Len(logsRef[f]) : logsRef[f][i].message \in MessagesOf(f)
    /\ \A d \in Daemons :
          daemon[d].pc = "sending" => ~ShowsEntryOf(daemon[d].text, OtherRequest(daemon[d].parent))
    /\ \A i \in 1..Len(delivered) :
          ~(ShowsEntryOf(delivered[i], RequestFiber)
                /\ ShowsEntryOf(delivered[i], OtherRequestFiber))

\* both requests have logged, and each has had its own entries delivered
C21_Witness ==
    /\ Len(delivered) = 2
    /\ ShowsEntryOf(delivered[1], RequestFiber)
    /\ ShowsEntryOf(delivered[2], OtherRequestFiber)
    /\ logsRef[RequestFiber] # <<>>
    /\ logsRef[OtherRequestFiber] # <<>>

-----------------------------------------------------------------------------
(* Failure and the empty buffer in Activity.send (checked under SpecActivity) *)

\* the forked body starts on an empty buffer and without a message
StartsOnNothing(d) ==
    /\ daemon[d].pc = "start"
    /\ daemon'[d].pc # "start"
    /\ logsRef[d] = <<>>
    /\ daemon[d].message = ""

\* the forked body empties its buffer in this step
Clears(d) == logsRef[d] # <<>> /\ logsRef'[d] = <<>>

C28_Step ==
    \A d \in Daemons :
        /\ DeliveryFails(d) => logsRef' = logsRef
        /\ StartsOnNothing(d) =>
              /\ daemon'[d].pc = "done"
              /\ delivered' = delivered
              /\ errorLog' = errorLog
              /\ logsRef' = logsRef
        /\ Clears(d) => daemon[d].pc = "clear"
        /\ (daemon[d].pc # "clear" /\ daemon'[d].pc = "clear") =>
              /\ daemon[d].pc = "sending"
              /\ errorLog' = errorLog

\* C28: a delivery that fails leaves every buffer as it was, the clearing step
\* is reached only from a delivery that did not fail, and a send() on an empty
\* buffer without a message ends without a delivery, a log line or a change of
\* the buffer.
C28_KeepsOnFailure == [][C28_Step]_vars

\* the first send() found nothing to send; the second failed to deliver and
\* the entries are still in the buffers
C28_Witness ==
    /\ daemon[1].pc = "done"
    /\ logsRef[1] = <<>>
    /\ daemon[2].pc = "done"
    /\ logsRef[2] # <<>>
    /\ logsRef[RequestFiber] = logsRef[2]
    /\ delivered = <<>>
    /\ Len(errorLog) = 2

-----------------------------------------------------------------------------
(* Dispatch order in deletePostAction (checked under Spec) *)

ExplicitCases == {"UnauthorizedError", "NotFoundError"}

\* deletePostAction has failed in slot s with something else than UnauthenticatedError
DeleteFailed(s) ==
    /\ Failed(s)
    /\ inv[s].action = "deletePostAction"
    /\ inv[s].result.error._tag # "UnauthenticatedError"

\* C22: deletePostAction answers UnauthorizedError and NotFoundError with
\* {_tag: 'Error'} carrying the error's own message, and every other error
\* except UnauthenticatedError with the message 'Something went wrong'; the
\* catch-all message is never the answer to one of the two explicit cases.
C22_FirstMatch ==
    \A s \in Slots :
        DeleteFailed(s) =>
            IF inv[s].result.error._tag \in ExplicitCases
            THEN /\ inv[s].outcome = ErrorOutcome(inv[s].result.error.message)
                 /\ inv[s].outcome.message # "Something went wrong"
            ELSE inv[s].outcome = ErrorOutcome("Something went wrong")

\* one call ended in the explicit case NotFoundError, another in the catch-all
C22_Witness ==
    \E s, t \in Slots :
        /\ DeleteFailed(s)
        /\ inv[s].result.error._tag = "NotFoundError"
        /\ inv[s].outcome.message = "Post not found"
        /\ DeleteFailed(t)
        /\ inv[t].result.error._tag = "S3ConfigError"
        /\ inv[t].outcome.message = "Something went wrong"

-----------------------------------------------------------------------------
(* Deleting what is there and what is not (checked under Spec) *)

\* invocation s gets the answer of its select in this step
Selects(s) ==
    /\ inv[s].action = "deletePostAction"
    /\ inv[s].pc = "body"
    /\ inv'[s].pc # "body"

RowsWithId(id) == {p \in post : p.id = id}

C23_State ==
    \A s \in Slots :
        FailedWith(s, "NotFoundError") =>
            /\ inv[s].result.error =
                  [_tag |-> "NotFoundError", message |-> "Post not found",
                   entity |-> "post", id |-> inv[s].input.postId]
            /\ \A i \in 1..Len(inv[s].trace) : inv[s].trace[i] # "db.delete"

C23_Step ==
    \A s \in Slots :
        /\ (Selects(s) /\ RowsWithId(inv[s].input.postId) = {}
                       /\ inv'[s].result.error._tag # "SqlError") =>
              /\ inv'[s].result.error._tag = "NotFoundError"
              /\ inv'[s].result.error.id = inv[s].input.postId
              /\ post' = post
        /\ (Deletes(s) /\ inv'[s].result.ok) =>
              /\ post' = post \ RowsWithId(inv[s].input.postId)
              /\ Cardinality(post \ post') <= 1

\* C23: when the select of deletePostAction finds no row with the given id the
\* call fails with NotFoundError for entity 'post' and that id, whoever the
\* session user is, and never reaches db.delete; a delete that succeeds takes
\* the row with that id out of the table and leaves every other row.
C23_DeleteExact == []C23_State /\ [][C23_Step]_vars

\* the seed post was deleted while the second post stayed, and a call by u2 on
\* the id that is gone ended in NotFoundError
C23_Witness ==
    \E s, t \in Slots :
        /\ FailedWith(s, "NotFoundError")
        /\ inv[s].user = "u2"
        /\ inv[s].input.postId = 1
        /\ Succeeded(t)
        /\ inv[t].action = "deletePostAction"
        /\ post = {[id |-> 2, title |-> "hello", userId |-> "u1"]}

-----------------------------------------------------------------------------
(* The session guards (checked under SpecFunctions) *)

IsAdmin(raw) == raw.present /\ raw.user.role = "ADMIN"

\* C24: getAdminSession succeeds exactly for a session whose role is 'ADMIN';
\* without a session it fails with UnauthenticatedError, and with a session of
\* any other role with UnauthorizedError.  getSession fails, with
\* UnauthenticatedError, exactly when there is no session, and hands on the
\* role 'ADMIN' or else 'USER'.
C24_Guards ==
    LET raw == applied.input.raw
        out == applied.output
    IN  /\ applied.fn = "getAdminSession" =>
              /\ out.ok <=> IsAdmin(raw)
              /\ ~raw.present => out.error._tag = "UnauthenticatedError"
              /\ (raw.present /\ ~IsAdmin(raw)) => out.error._tag = "UnauthorizedError"
              /\ out.ok => out.value.user = [id |-> raw.user.id, role |-> "ADMIN"]
        /\ applied.fn = "getSession" =>
              /\ out.ok <=> raw.present
              /\ ~out.ok => out.error = UnauthenticatedError
              /\ out.ok => out.value.user.id = raw.user.id
              /\ out.ok => out.value.user.role = (IF IsAdmin(raw) THEN "ADMIN" ELSE "USER")

\* a session whose role is spelled 'admin' is refused as unauthorized
C24_Witness ==
    /\ applied.fn = "getAdminSession"
    /\ applied.input.raw.present
    /\ applied.input.raw.user.role = "admin"
    /\ applied.output = Fail(NotAuthorizedError)

-----------------------------------------------------------------------------
(* What getPosts returns (checked under SpecFunctions) *)

Returned_Rows == {applied.output.value[i] : i \in DOMAIN applied.output.value}

\* the title contains q, letter case aside
TitleContains(title, q) == Contains(toLowerCase(title), toLowerCase(q))

\* C25 as stated: getPosts returns rows of the session user only, and a row of
\* that user exactly when its title contains q in either case (for a non-empty
\* q) and its published flag equals the parameter (for true or false).
C25_Original ==
    (applied.fn = "getPosts" /\ applied.output.ok) =>
        LET user == applied.input.raw.user.id
            params == applied.input.params
        IN  /\ \A p \in Returned_Rows : p.userId = user
            /\ \A p \in StoredPosts :
                  p.userId = user =>
                      (p \in Returned_Rows <=>
                          /\ params.q # "" => TitleContains(p.title, params.q)
                          /\ params.published = "true" => p.published
                          /\ params.published = "false" => ~p.published)

-----------------------------------------------------------------------------
(* Chunks of a Telegram message (checked under SpecTelegram) *)

RECURSIVE Concatenation(_)
Concatenation(strs) == IF strs = <<>> THEN "" ELSE Head(strs) \o Concatenation(Tail(strs))

C26_State ==
    tg.pc # "idle" =>
        /\ \A i \in DOMAIN tg.chunks :
              Len(tg.chunks[i]) = (IF i < Len(tg.chunks) THEN 4096 ELSE Len(tg.chunks[i]))
        /\ \A i \in DOMAIN tg.chunks : Len(tg.chunks[i]) \in 1..4096
        /\ Concatenation(tg.chunks) = tg.message
        /\ tg.message = "" => tg.accepted = <<>>
        /\ Len(tg.accepted) <= Len(tg.chunks)
        /\ tg.accepted = SubSeq(tg.chunks, 1, Len(tg.accepted))
        /\ (tg.pc = "done" /\ tg.result.ok) => tg.accepted = tg.chunks
        /\ (tg.pc = "done" /\ ~tg.result.ok) =>
              /\ tg.result.error._tag = "TelegramSendError"
              /\ Len(tg.accepted) < Len(tg.chunks)

C26_Step ==
    /\ Len(tg'.accepted) <= Len(tg.accepted) + 1
    /\ (tg.pc = "done" /\ tg'.pc # "idle") => tg'.accepted = tg.accepted

\* C26: the chunks are at most 4096 characters long, all but the last exactly
\* 4096, none empty, and put together in order they are the message; what the
\* API has accepted is always a prefix of the chunks, grown by one chunk at a
\* time; an empty message delivers nothing, a call that succeeds has delivered
\* every chunk, and after a TelegramSendError nothing more is delivered.
C26_Chunks == []C26_State /\ [][C26_Step]_vars

\* 8193 characters: two full chunks were accepted, the third of one character
\* failed
C26_Witness ==
    /\ tg.pc = "done"
    /\ Len(tg.message) = 8193
    /\ Len(tg.chunks) = 3
    /\ Len(tg.chunks[3]) = 1
    /\ Len(tg.accepted) = 2
    /\ ~tg.result.ok

-----------------------------------------------------------------------------
(* Authentication before every effect of a server action (checked under Spec) *)

\* the invocation of a server action whose getSession has failed
SessionFailed(s) ==
    /\ inv[s].action \in ServerActions
    /\ inv[s].session = NoSession
    /\ Len(inv[s].trace) > 0
    /\ inv[s].trace[1] = "getSession"

SideEffects == DataEffects \cup {"revalidatePath"}

C27_State ==
    \A s \in Slots :
        SessionFailed(s) =>
            /\ Performed(inv[s].trace) \cap SideEffects = {}
            /\ inv[s].trace = <<"getSession">>
            /\ inv[s].revalidated = 0
            /\ inv[s].pc \in {"match", "done"}
            /\ inv[s].result = Fail(UnauthenticatedError)

C27_Step ==
    \A s \in Slots :
        (SessionFailed(s) /\ inv'[s] # inv[s]) => UNCHANGED <<post, nextId>>

\* C27: in each of the five server actions, once getSession has failed the
\* invocation performs no database statement and no S3 operation, triggers no
\* cache invalidation, and none of its steps changes the stored posts: getSession
\* stays the only entry of its trace.
C27_AuthenticationFirst == []C27_State /\ [][C27_Step]_vars

\* getUploadUrlAction has ended on a failed getSession, while the other slot,
\* with a session, has inserted a post
C27_Witness ==
    \E s, t \in Slots :
        /\ SessionFailed(s)
        /\ inv[s].pc = "done"
        /\ inv[s].action = "getUploadUrlAction"
        /\ inv[t].action = "createPostAction"
        /\ "db.insert" \in Performed(inv[t].trace)

-----------------------------------------------------------------------------
(* The owner of a post (checked under Spec) *)

\* the invocation of createPostAction that is about to insert
Inserting(s) == inv[s].pc = "body" /\ inv[s].action = "createPostAction"

Ids(rows) == {r.id : r \in rows}

C29_Step ==
    /\ \A r \in post' \ post :
          /\ r.id \notin Ids(post)
          /\ \E s \in Slots :
                /\ Inserting(s)
                /\ inv'[s] # inv[s]
                /\ inv[s].session \in Users
                /\ r.userId = inv[s].session
    /\ \A r \in post' : r.id \in Ids(post) => r \in post

C29_State ==
    /\ \A r \in post : r.userId \in Users
    /\ \A r, q \in post : r.id = q.id => r = q
    /\ \A s \in Slots :
          (inv[s].action = "createPostAction" /\ Succeeded(s)) =>
              inv[s].result.value.userId = inv[s].session

\* C29: every row that enters the posts is new, is inserted by an invocation of
\* createPostAction and has the id of that invocation's session user as its
\* userId, whatever owner the input names; no later step changes the userId of
\* a stored row, so every stored post is owned by the user who created it.
C29_OwnerFixed == []C29_State /\ [][C29_Step]_vars

\* u1 created a post while its input named u2 as the owner; the stored row is u1's
C29_Witness ==
    \E s \in Slots :
        /\ inv[s].action = "createPostAction"
        /\ Succeeded(s)
        /\ inv[s].session = "u1"
        /\ inv[s].input.userId = "u2"
        /\ inv[s].result.value \in post
        /\ inv[s].result.value.userId = "u1"

-----------------------------------------------------------------------------
(* The selected suggestion of MentionInput (checked under SpecMention) *)

Filtered == filteredSuggestions(mi.suggestionFilter)

\* the list is rendered: showSuggestions && filteredSuggestions.length > 0
ListShown == mi.showSuggestions /\ Len(Filtered) > 0

C30_Range == ListShown => mi.selectedIndex \in 0..(Len(Filtered) - 1)

\* an arrow key pressed on the rendered list moves the selection by one, cyclically
C30_Arrows ==
    /\ (ListShown /\ mi'.event = "ArrowDown" /\ mi' # mi) =>
          mi'.selectedIndex = (IF mi.selectedIndex = Len(Filtered) - 1
                               THEN 0 ELSE mi.selectedIndex + 1)
    /\ (ListShown /\ mi'.event = "ArrowUp" /\ mi' # mi) =>
          mi'.selectedIndex = (IF mi.selectedIndex = 0
                               THEN Len(Filtered) - 1 ELSE mi.selectedIndex - 1)

\* Enter or Tab pressed on the rendered list puts the name of the selected
\* suggestion, one of the list, into the text and its id among the mentions
C30_Inserts ==
    (ListShown /\ mi'.event \in {"Enter", "Tab", "TypeError"} /\ mi' # mi) =>
        \E i \in DOMAIN Filtered :
            /\ i = mi.selectedIndex + 1
            /\ includes(mi'.value, "@" \o Filtered[i].name \o " ")
            /\ Filtered[i].id \in mi'.mentionedIds
            /\ ~mi'.showSuggestions

C30_FilterAlwaysResets ==
    mi'.suggestionFilter # mi.suggestionFilter => mi'.selectedIndex = 0

C30_Original ==
    []C30_Range /\ [][C30_Arrows /\ C30_Inserts /\ C30_FilterAlwaysResets]_vars

C30_FilterResets ==
    mi'.suggestionFilter # mi.suggestionFilter =>
        IF mi'.showSuggestions
        THEN mi'.selectedIndex = 0
        ELSE mi'.selectedIndex = mi.selectedIndex

\* C30: whenever the list is shown with at least one filtered suggestion the
\* selected index lies in 0..(number of filtered suggestions - 1); ArrowDown and
\* ArrowUp move it cyclically; every change of the filter that leaves the list
\* open resets it to 0 (a change that closes the list, by a space after the
\* mention or by an insertion, leaves the index as it is); Enter and Tab insert
\* the selected suggestion of the list.
C30_Amended ==
    []C30_Range /\ [][C30_Arrows /\ C30_Inserts /\ C30_FilterResets]_vars

\* ArrowUp on the first of all three suggestions has selected the last one
C30_Witness ==
    /\ ListShown
    /\ Len(Filtered) = 3
    /\ mi.event = "ArrowUp"
    /\ mi.selectedIndex = 2

====
